---- MODULE Spec2Model ----
(***************************************************************************)
(* A model of the irc-chat server (MarceAriel99/irc-chat): the channel     *)
(* object, the per-session handler threads, the coordinator thread of each *)
(* server and the peer links of the star-shaped federation.                *)
(*                                                                         *)
(* Option<T> is modelled as a sequence of length at most one: << >> is     *)
(* None and <<x>> is Some(x).  HashMap<K,V> is a function whose DOMAIN is  *)
(* the key set.  Vec<String> fields that the code only tests with          *)
(* contains()/clear() and never lets hold a value twice where it matters   *)
(* (operators, invites) are sets.                                          *)
(***************************************************************************)
EXTENDS Integers, Sequences, FiniteSets, TLC

\* ---------------------------------------------------------------- bounds
MaxCmds == 3
MaxLink == 2
MaxInq == 3
MaxRcv == 3
MaxChanCmds == 4
MaxMsgs == 2
MaxEcho == 2
MaxAdm == 3
MaxAdmFair == 2
MaxReg == 3
MaxServ == 3
MaxPriv == 2
MaxQuit == 3
MaxLine == 4       \* characters of a line handed to the parser
MaxTrailing == 2   \* characters of a trailing parameter handed to the serializer
MaxWire == 2       \* lines parsed in a row, each the serialization of the message before
MaxLockOps == 8    \* operations the threads of a server take up

\* ------------------------------------------------------- the deployment
MainName == "main"
Servers == {"main", "sec1", "sec2"}
Secondaries == Servers \ {MainName}
Nicks == {"a", "b", "c", "d"}
Home == [n \in Nicks |-> CASE n = "a" -> "main"
                           [] n = "b" -> "sec1"
                           [] n = "c" -> "sec1"
                           [] OTHER -> "sec2"]
Filler == {"&f0", "&f1", "&f2", "&f3", "&f4", "&f5", "&f6", "&f7", "&f8", "&f9"}

\* ----------------------------------------------------------- Option<T>
NoneV == << >>
Some(x) == <<x>>
is_some(o) == o # << >>

\* ------------------------------------------------------------ HashMap
insert(map, k, v) == [x \in (DOMAIN map) \cup {k} |-> IF x = k THEN v ELSE map[x]]
remove(map, k) == [x \in (DOMAIN map) \ {k} |-> map[x]]

\* ------------------------------------------------------------- channel
MAX_USER_CHANNELS == 10

is_multiserver(name) == name \in {"#c"}

is_user_on_channel(ch, nick) == nick \in ch.users
is_operator(ch, nick) == nick \in ch.operators
is_banned(ch, nick) == nick \in ch.banned
is_empty(ch) == ch.users = {}
channel_has_topic(ch, t) == ch.topic = Some(t)

ChannelNew(operator) ==
  [users |-> {operator}, operators |-> {operator}, topic |-> NoneV,
   key |-> NoneV, invites |-> {}, limit |-> NoneV, enter_mode |-> NoneV,
   operator_settable_topic |-> FALSE, secret |-> FALSE, banned |-> {}]

get_topic_reply(ch) == IF is_some(ch.topic) THEN "RPL_TOPIC" ELSE "RPL_NOTOPIC"

\* A join that tests the user's channel count before the ban list.
JoinReplyCountFirst(ch, nick, nch, key) ==
  IF is_user_on_channel(ch, nick) THEN get_topic_reply(ch)
  ELSE IF nch = MAX_USER_CHANNELS THEN "ERR_TOOMANYCHANNELS"
  ELSE IF is_banned(ch, nick) THEN "ERR_BANNEDFROMCHAN"
  ELSE IF is_some(ch.limit) /\ Cardinality(ch.users) >= ch.limit[1] THEN "ERR_CHANNELISFULL"
  ELSE IF ch.enter_mode = Some("+i") /\ nick \notin ch.invites THEN "ERR_INVITEONLYCHAN"
  ELSE IF ch.enter_mode = Some("+k") /\ ~is_some(key) THEN "ERR_CHANNELHASKEY"
  ELSE IF ch.enter_mode = Some("+k") /\ key # ch.key THEN "ERR_BADCHANNELKEY"
  ELSE "JOINED"

\* The reply of Channel::join, in the order the code tests the conditions;
\* nch is user.channels.len() and key the Option<String> the client gave.
JoinReply(ch, nick, nch, key) ==
  IF is_user_on_channel(ch, nick) THEN get_topic_reply(ch)
  ELSE IF is_banned(ch, nick) THEN "ERR_BANNEDFROMCHAN"
  ELSE IF nch = MAX_USER_CHANNELS THEN "ERR_TOOMANYCHANNELS"
  ELSE IF is_some(ch.limit) /\ Cardinality(ch.users) >= ch.limit[1] THEN "ERR_CHANNELISFULL"
  ELSE IF ch.enter_mode = Some("+i") /\ nick \notin ch.invites THEN "ERR_INVITEONLYCHAN"
  ELSE IF ch.enter_mode = Some("+k") /\ ~is_some(key) THEN "ERR_CHANNELHASKEY"
  ELSE IF ch.enter_mode = Some("+k") /\ key # ch.key THEN "ERR_BADCHANNELKEY"
  ELSE "JOINED"

join(ch, nick, nch, key) ==
  LET r == JoinReply(ch, nick, nch, key) IN
  IF r = "JOINED"
    THEN [ch |-> [ch EXCEPT !.users = @ \cup {nick}], reply |-> get_topic_reply(ch)]
    ELSE [ch |-> ch, reply |-> r]

\* A removal that takes the user out of the members only.
remove_user_members_only(ch, nick) ==
  IF nick \in ch.users THEN [ch EXCEPT !.users = @ \ {nick}] ELSE ch

remove_user(ch, nick) ==
  IF nick \in ch.users
    THEN [ch EXCEPT !.users = @ \ {nick}, !.operators = @ \ {nick}]
    ELSE ch

\* Channel::part; when the last operator left, the code promotes
\* users.keys()[0] of a HashMap, i.e. any remaining member: promoted is
\* that choice.
part(ch, nick, promoted) ==
  IF nick \notin ch.users THEN [ch |-> ch, reply |-> "ERR_NOTONCHANNEL"]
  ELSE LET c1 == remove_user(ch, nick) IN
       IF is_empty(c1) THEN [ch |-> c1, reply |-> "OK"]
       ELSE IF c1.operators = {}
              THEN [ch |-> [c1 EXCEPT !.operators = {promoted}], reply |-> "OK"]
              ELSE [ch |-> c1, reply |-> "OK"]

\* A privilege test that any member passes.
reply_user_is_member(ch, nick) ==
  IF ~is_user_on_channel(ch, nick) THEN "ERR_NOTONCHANNEL" ELSE "OK"

reply_user_using_privileges(ch, nick) ==
  IF ~is_user_on_channel(ch, nick) THEN "ERR_NOTONCHANNEL"
  ELSE IF ~is_operator(ch, nick) THEN "ERR_CHANOPRIVSNEEDED"
  ELSE "OK"

kick(ch, kicked, kicker) ==
  LET p == reply_user_using_privileges(ch, kicker) IN
  IF p # "OK" THEN [ch |-> ch, reply |-> p]
  ELSE IF ~is_user_on_channel(ch, kicked) THEN [ch |-> ch, reply |-> "ERR_NOSUCHNICK"]
  ELSE IF kicked = kicker THEN [ch |-> ch, reply |-> "OK"]
  ELSE [ch |-> remove_user(ch, kicked), reply |-> "OK"]

\* An INVITE that any member may give.
save_invite_by_member(ch, invitee, inviter) ==
  IF ~is_user_on_channel(ch, inviter) THEN [ch |-> ch, reply |-> "ERR_NOTONCHANNEL"]
  ELSE IF is_user_on_channel(ch, invitee) THEN [ch |-> ch, reply |-> "ERR_USERONCHANNEL"]
  ELSE [ch |-> [ch EXCEPT !.invites = @ \cup {invitee}], reply |-> "OK"]

save_invite(ch, invitee, inviter) ==
  LET p == reply_user_using_privileges(ch, inviter) IN
  IF p # "OK" THEN [ch |-> ch, reply |-> p]
  ELSE IF is_user_on_channel(ch, invitee) THEN [ch |-> ch, reply |-> "ERR_USERONCHANNEL"]
  ELSE [ch |-> [ch EXCEPT !.invites = @ \cup {invitee}], reply |-> "OK"]

set_topic(ch, nick, t) ==
  IF ~is_user_on_channel(ch, nick) THEN [ch |-> ch, reply |-> "ERR_NOTONCHANNEL"]
  ELSE IF ch.operator_settable_topic /\ ~is_operator(ch, nick)
         THEN [ch |-> ch, reply |-> "ERR_CHANOPRIVSNEEDED"]
  ELSE [ch |-> [ch EXCEPT !.topic = Some(t)], reply |-> "OK"]

\* ---------------------------------------------------------------- modes
\* args is params[2] of the MODE message (params_total_count = 2 + Len(args)).
\* usize::from_str of the limit argument: the decimal strings the clients
\* of the model send, anything else fails to parse.
ParseUsize(str) ==
  CASE str = "0" -> Some(0)
    [] str = "1" -> Some(1)
    [] str = "2" -> Some(2)
    [] OTHER -> NoneV

set_key(ch, args, nick) ==
  IF Len(args) < 1 THEN [ch |-> ch, reply |-> "ERR_NEEDMOREPARAMS"]
  ELSE LET p == reply_user_using_privileges(ch, nick) IN
  IF p # "OK" THEN [ch |-> ch, reply |-> p]
  ELSE IF is_some(ch.key) THEN [ch |-> ch, reply |-> "ERR_KEYSET"]
  ELSE [ch |-> [ch EXCEPT !.invites = {}, !.enter_mode = Some("+k"), !.key = Some(args[1])],
        reply |-> "OK"]

remove_key(ch, nick) ==
  LET p == reply_user_using_privileges(ch, nick) IN
  IF p # "OK" THEN [ch |-> ch, reply |-> p]
  ELSE [ch |-> [ch EXCEPT !.enter_mode = NoneV, !.key = NoneV], reply |-> "OK"]

set_limit(ch, args, nick) ==
  IF Len(args) < 1 THEN [ch |-> ch, reply |-> "ERR_NEEDMOREPARAMS"]
  ELSE LET p == reply_user_using_privileges(ch, nick) IN
  IF p # "OK" THEN [ch |-> ch, reply |-> p]
  ELSE IF ~is_some(ParseUsize(args[1])) THEN [ch |-> ch, reply |-> "ERR_INVALIDLIMIT"]
  ELSE [ch |-> [ch EXCEPT !.limit = ParseUsize(args[1])], reply |-> "OK"]

\* A -l that checks the privileges and leaves the limit in place.
remove_limit_kept(ch, nick) ==
  LET p == reply_user_using_privileges(ch, nick) IN
  IF p # "OK" THEN [ch |-> ch, reply |-> p]
  ELSE [ch |-> ch, reply |-> "OK"]

remove_limit(ch, nick) ==
  LET p == reply_user_using_privileges(ch, nick) IN
  IF p # "OK" THEN [ch |-> ch, reply |-> p]
  ELSE [ch |-> [ch EXCEPT !.limit = NoneV], reply |-> "OK"]

\* A +i that leaves the key in place.
set_as_invite_only_keeps_key(ch, nick) ==
  LET p == reply_user_using_privileges(ch, nick) IN
  IF p # "OK" THEN [ch |-> ch, reply |-> p]
  ELSE [ch |-> [ch EXCEPT !.enter_mode = Some("+i")], reply |-> "OK"]

set_as_invite_only(ch, nick) ==
  LET p == reply_user_using_privileges(ch, nick) IN
  IF p # "OK" THEN [ch |-> ch, reply |-> p]
  ELSE [ch |-> [ch EXCEPT !.key = NoneV, !.enter_mode = Some("+i")], reply |-> "OK"]

remove_invite_only_status(ch, nick) ==
  LET p == reply_user_using_privileges(ch, nick) IN
  IF p # "OK" THEN [ch |-> ch, reply |-> p]
  ELSE IF ch.enter_mode = Some("+i")
         THEN [ch |-> [ch EXCEPT !.enter_mode = NoneV, !.invites = {}], reply |-> "OK"]
         ELSE [ch |-> ch, reply |-> "OK"]

give_operator_privileges(ch, args, nick) ==
  IF Len(args) < 1 THEN [ch |-> ch, reply |-> "ERR_NEEDMOREPARAMS"]
  ELSE LET p == reply_user_using_privileges(ch, nick) IN
  IF p # "OK" THEN [ch |-> ch, reply |-> p]
  ELSE IF ~is_user_on_channel(ch, args[1]) THEN [ch |-> ch, reply |-> "ERR_NOSUCHNICK"]
  ELSE [ch |-> [ch EXCEPT !.operators = @ \cup {args[1]}], reply |-> "OK"]

remove_operator_privileges(ch, args, nick) ==
  IF Len(args) < 1 THEN [ch |-> ch, reply |-> "ERR_NEEDMOREPARAMS"]
  ELSE LET p == reply_user_using_privileges(ch, nick) IN
  IF p # "OK" THEN [ch |-> ch, reply |-> p]
  ELSE IF args[1] = nick THEN [ch |-> ch, reply |-> "OK"]
  ELSE IF ~is_user_on_channel(ch, args[1]) THEN [ch |-> ch, reply |-> "ERR_NOSUCHNICK"]
  ELSE [ch |-> [ch EXCEPT !.operators = @ \ {args[1]}], reply |-> "OK"]

\* A +s that flips the flag.
set_as_secret_flips(ch, nick) ==
  LET p == reply_user_using_privileges(ch, nick) IN
  IF p # "OK" THEN [ch |-> ch, reply |-> p]
  ELSE [ch |-> [ch EXCEPT !.secret = ~@], reply |-> "OK"]

set_as_secret(ch, nick) ==
  LET p == reply_user_using_privileges(ch, nick) IN
  IF p # "OK" THEN [ch |-> ch, reply |-> p]
  ELSE [ch |-> [ch EXCEPT !.secret = TRUE], reply |-> "OK"]

remove_secret_status(ch, nick) ==
  LET p == reply_user_using_privileges(ch, nick) IN
  IF p # "OK" THEN [ch |-> ch, reply |-> p]
  ELSE [ch |-> [ch EXCEPT !.secret = FALSE], reply |-> "OK"]

set_operator_settable_topic(ch, nick) ==
  LET p == reply_user_using_privileges(ch, nick) IN
  IF p # "OK" THEN [ch |-> ch, reply |-> p]
  ELSE [ch |-> [ch EXCEPT !.operator_settable_topic = TRUE], reply |-> "OK"]

remove_operator_settable_topic(ch, nick) ==
  LET p == reply_user_using_privileges(ch, nick) IN
  IF p # "OK" THEN [ch |-> ch, reply |-> p]
  ELSE [ch |-> [ch EXCEPT !.operator_settable_topic = FALSE], reply |-> "OK"]

set_ban(ch, args, nick) ==
  IF Len(args) < 1 THEN [ch |-> ch, reply |-> "ERR_NEEDMOREPARAMS"]
  ELSE LET p == reply_user_using_privileges(ch, nick) IN
  IF p # "OK" THEN [ch |-> ch, reply |-> p]
  ELSE [ch |-> [ch EXCEPT !.banned = @ \cup {args[i] : i \in 1..Len(args)}], reply |-> "OK"]

remove_ban(ch, args, nick) ==
  LET p == reply_user_using_privileges(ch, nick) IN
  IF p # "OK" THEN [ch |-> ch, reply |-> p]
  ELSE IF Len(args) = 0 THEN [ch |-> [ch EXCEPT !.banned = {}], reply |-> "OK"]
  ELSE [ch |-> [ch EXCEPT !.banned = @ \ {args[i] : i \in 1..Len(args)}], reply |-> "OK"]

Modes == {"+k", "-k", "+l", "-l", "+i", "-i", "+o", "-o", "+t", "-t", "+s", "-s", "+b", "-b"}

\* The dispatch on the mode token shared by the session handler and the
\* peer handler; a token outside Modes is ERR_UNKNOWNMODE.
apply_mode(ch, mode, args, nick) ==
  CASE mode = "+k" -> set_key(ch, args, nick)
    [] mode = "-k" -> remove_key(ch, nick)
    [] mode = "+l" -> set_limit(ch, args, nick)
    [] mode = "-l" -> remove_limit(ch, nick)
    [] mode = "+i" -> set_as_invite_only(ch, nick)
    [] mode = "-i" -> remove_invite_only_status(ch, nick)
    [] mode = "+o" -> give_operator_privileges(ch, args, nick)
    [] mode = "-o" -> remove_operator_privileges(ch, args, nick)
    [] mode = "+t" -> set_operator_settable_topic(ch, nick)
    [] mode = "-t" -> remove_operator_settable_topic(ch, nick)
    [] mode = "+s" -> set_as_secret(ch, nick)
    [] mode = "-s" -> remove_secret_status(ch, nick)
    [] mode = "+b" -> set_ban(ch, args, nick)
    [] mode = "-b" -> remove_ban(ch, args, nick)
    [] OTHER -> [ch |-> ch, reply |-> "ERR_UNKNOWNMODE"]

\* ---------------------------------------------------------------- state
VARIABLES
  chans,          \* chans[s]: the channels map of server s (name -> Channel)
  users,          \* users[s]: the users map of server s (nick -> User)
  users_clients,  \* users_clients[s]: nicks with a live session on s
  peer_up,        \* <<s, t>>: the handler thread of s for its peer t runs
  inq,            \* inq[s]: the coordinator's inbound queue
  link,           \* link[<<s, t>>]: messages of s's coordinator on their way to t's handler
  rcv,            \* rcv[n]: what coordinators have put on n's session queue
  exited,         \* exited[s]: None while Server::run loops, Some(error) after it returned
  last,           \* the last client command and what the handler answered
  cmds,           \* number of client commands the clients may still issue
  operator,       \* operator[s]: Server.operator of s ("" until an OPER succeeds)
  squit,          \* squit[s]: the SQUIT that made the coordinator of s stop serving
  sess,           \* sess[n]: the handler thread of n's session and what its client saw
  peer_wait,      \* <<s, t>>: the handler of s for peer t waits in handle_squit
  conn,           \* conn[c]: the handler of connection c, not yet a session
  wire,           \* a message or line in the parser and serializer, and the result
  locks           \* locks[th]: the operation thread th is in and the mutexes it holds

\* The state of the administration commands (OPER, SQUIT) and of the
\* connections being set up.
adm == <<operator, squit, sess, peer_wait, conn, wire, locks>>

vars == <<chans, users, users_clients, peer_up, inq, link, rcv, exited, last, cmds, adm>>

\* A session handler in its read loop: st is "run" in the loop, "oper" or
\* "squit" while it waits in set_operator or handle_quit_server for the
\* coordinator's answer, "done" after the thread ended, "joined" after the
\* coordinator joined it; taken counts the
\* messages it took off its queue; quit says the client was sent QUIT;
\* reply is the numeric reply of the last OPER or SQUIT.
NewSession == [st |-> "run", taken |-> 0, quit |-> FALSE, reply |-> ""]

\* The connections a listener accepts while the system runs.
Conns == {1, 2}

\* A connection handler (ConnectionHandler): the server that accepted it, st
\* "off" before the connection is made, "new" when the action line is
\* awaited, "nick" when the USER line is, "wait" in connect_server, and
\* "session" or "peer" once the handler runs ClientHandler::handle_client;
\* the action, nickname (or server name) and password read so far, the
\* last numeric reply written, and the number of lines handled as a peer's.
NoConn ==
  [server |-> "", st |-> "off", action |-> "", nick |-> "", password |-> "",
   reply |-> "", handled |-> 0]

\* Nothing in the parser: st is "none"; otherwise "message" (a message to
\* serialize), "line" (a line to parse) or "parsed", with the message, the
\* line, the parser's result and the number of lines parsed so far.
NoWire == [st |-> "none", message |-> NoneV, line |-> << >>, parsed |-> NoneV, rounds |-> 0]

\* The threads of one server that lock its users and channels maps: the
\* handlers of two sessions and the coordinator.  A thread outside any
\* operation has op "" and holds nothing.
Threads == {"b", "c", "coordinator"}
NoLocks == [th \in Threads |-> [op |-> "", held |-> {}]]

AdmInit ==
  /\ operator = [s \in Servers |-> ""]
  /\ squit = [s \in Servers |-> NoneV]
  /\ sess = [n \in Nicks |-> NewSession]
  /\ peer_wait = {}
  /\ wire = NoWire
  /\ locks = NoLocks
  /\ conn = [c \in Conns |-> NoConn]

Message(prefix, command, target, mode, args) ==
  [prefix |-> prefix, command |-> command, target |-> target, mode |-> mode, args |-> args]

NoCmd ==
  [command |-> "", nick |-> "", target |-> "", mode |-> "", args |-> << >>,
   reply |-> "", pre |-> NoneV, nch |-> 0, mid |-> NoneV, post |-> NoneV]

Links == {<<MainName, t>> : t \in Secondaries} \cup {<<t, MainName>> : t \in Secondaries}

\* The passwords users register with.
Passwords == {"p1", "p2"}

NewUser(n) ==
  [server_name |-> Home[n], password |-> "p1", channels |-> {}, away_message |-> NoneV]

\* The state after the servers have connected and every user has registered
\* and logged in on its home server: no channel exists yet.
Init ==
  /\ chans = [s \in Servers |-> << >>]
  /\ users = [s \in Servers |-> [n \in Nicks |-> NewUser(n)]]
  /\ users_clients = [s \in Servers |-> {n \in Nicks : Home[n] = s}]
  /\ peer_up = Links
  /\ inq = [s \in Servers |-> << >>]
  /\ link = [l \in Links |-> << >>]
  /\ rcv = [n \in Nicks |-> << >>]
  /\ exited = [s \in Servers |-> NoneV]
  /\ last = NoCmd
  /\ cmds = MaxCmds
  /\ AdmInit

get(map, k) == IF k \in DOMAIN map THEN Some(map[k]) ELSE NoneV

\* A session handler can take a line from its client.
CanCommand(n) ==
  /\ n \in users_clients[Home[n]]
  /\ sess[n].st = "run"
  /\ exited[Home[n]] = NoneV
  /\ cmds > 0
  /\ Len(inq[Home[n]]) < MaxInq

Record(command, n, target, mode, args, reply, pre, nch, post) ==
  [command |-> command, nick |-> n, target |-> target, mode |-> mode, args |-> args,
   reply |-> reply, pre |-> pre, nch |-> nch, mid |-> NoneV, post |-> post]

add_channel(u, name) == [u EXCEPT !.channels = @ \cup {name}]
remove_channel(u, name) == [u EXCEPT !.channels = @ \ {name}]

\* JOIN <name> [<key>] from n's client: join_channel for one channel name.
ClientJoin(n, name, key) ==
  LET s == Home[n]
      nch == Cardinality(users[s][n].channels)
      pre == get(chans[s], name)
      r == IF is_some(pre) THEN join(pre[1], n, nch, key)
                           ELSE [ch |-> ChannelNew(n), reply |-> "RPL_NOTOPIC"]
      tell == is_multiserver(name) /\ r.reply \in {"RPL_TOPIC", "RPL_NOTOPIC"}
  IN /\ CanCommand(n)
     /\ chans' = [chans EXCEPT ![s] = insert(@, name, r.ch)]
     /\ users' = [users EXCEPT ![s][n] = add_channel(@, name)]
     /\ inq' = [inq EXCEPT ![s] = IF tell THEN Append(@, Message(n, "JOIN", name, "", << >>)) ELSE @]
     /\ last' = Record("JOIN", n, name, "", key, r.reply, pre, nch, Some(r.ch))
     /\ cmds' = cmds - 1
     /\ UNCHANGED <<users_clients, peer_up, link, rcv, exited, adm>>

\* PART <name> from n's client: part_channel for one channel name.
ClientPart(n, name) ==
  LET s == Home[n]
      pre == get(chans[s], name)
  IN /\ CanCommand(n)
     /\ IF is_some(pre)
          THEN \E promoted \in (IF pre[1].users \ {n} = {} THEN {n} ELSE pre[1].users \ {n}) :
                 LET r == part(pre[1], n, promoted)
                     post == IF is_empty(r.ch) THEN NoneV ELSE Some(r.ch)
                 IN /\ chans' = [chans EXCEPT ![s] = IF is_empty(r.ch) THEN remove(@, name)
                                                                     ELSE insert(@, name, r.ch)]
                    /\ inq' = [inq EXCEPT ![s] =
                                 IF r.reply = "OK" /\ is_multiserver(name)
                                   THEN Append(@, Message(n, "PART", name, "", << >>)) ELSE @]
                    /\ last' = Record("PART", n, name, "", << >>, r.reply, pre, 0, post)
          ELSE /\ UNCHANGED <<chans, inq, adm>>
               /\ last' = Record("PART", n, name, "", << >>, "ERR_NOSUCHCHANNEL", pre, 0, pre)
     /\ cmds' = cmds - 1
     /\ UNCHANGED <<users, users_clients, peer_up, link, rcv, exited, adm>>

\* KICK <name> <kicked> from n's client.
ClientKick(n, name, kicked) ==
  LET s == Home[n]
      pre == get(chans[s], name)
      r == IF is_some(pre) THEN kick(pre[1], kicked, n)
                           ELSE [ch |-> NoneV, reply |-> "ERR_NOSUCHCHANNEL"]
  IN /\ CanCommand(n)
     /\ chans' = IF is_some(pre) THEN [chans EXCEPT ![s][name] = r.ch] ELSE chans
     /\ inq' = [inq EXCEPT ![s] = IF r.reply = "OK"
                                    THEN Append(@, Message(n, "KICK", name, "", <<kicked>>)) ELSE @]
     /\ last' = Record("KICK", n, name, "", <<kicked>>, r.reply, pre, 0, get(chans'[s], name))
     /\ cmds' = cmds - 1
     /\ UNCHANGED <<users, users_clients, peer_up, link, rcv, exited, adm>>

\* INVITE <invitee> <name> from n's client.
ClientInvite(n, invitee, name) ==
  LET s == Home[n]
      pre == get(chans[s], name)
      r == IF invitee \notin DOMAIN users[s] THEN [ch |-> NoneV, reply |-> "ERR_NOSUCHNICK"]
           ELSE IF is_some(pre) THEN save_invite(pre[1], invitee, n)
           ELSE [ch |-> NoneV, reply |-> "ERR_NOSUCHNICK"]
      reply == IF r.reply = "OK" THEN "RPL_INVITING" ELSE r.reply
  IN /\ CanCommand(n)
     /\ chans' = IF r.reply = "OK" THEN [chans EXCEPT ![s][name] = r.ch] ELSE chans
     /\ inq' = [inq EXCEPT ![s] = IF r.reply = "OK"
                                    THEN Append(@, Message(n, "INVITE", name, "", <<invitee>>)) ELSE @]
     /\ last' = Record("INVITE", n, name, "", <<invitee>>, reply, pre, 0, get(chans'[s], name))
     /\ cmds' = cmds - 1
     /\ UNCHANGED <<users, users_clients, peer_up, link, rcv, exited, adm>>

\* TOPIC <name> <t> from n's client.
ClientTopic(n, name, t) ==
  LET s == Home[n]
      pre == get(chans[s], name)
      r == IF is_some(pre) THEN set_topic(pre[1], n, t)
                           ELSE [ch |-> NoneV, reply |-> "ERR_NOSUCHCHANNEL"]
  IN /\ CanCommand(n)
     /\ chans' = IF is_some(pre) THEN [chans EXCEPT ![s][name] = r.ch] ELSE chans
     /\ inq' = [inq EXCEPT ![s] = IF r.reply = "OK" /\ is_multiserver(name)
                                    THEN Append(@, Message(n, "TOPIC", name, "", <<t>>)) ELSE @]
     /\ last' = Record("TOPIC", n, name, "", <<t>>, r.reply, pre, 0, get(chans'[s], name))
     /\ cmds' = cmds - 1
     /\ UNCHANGED <<users, users_clients, peer_up, link, rcv, exited, adm>>

\* set_channel_mode and handle_mode of the session handler on the channel
\* found under the name (pre is None when there is none).
set_channel_mode(pre, n, mode, args) ==
  IF ~is_some(pre) THEN [ch |-> NoneV, reply |-> "ERR_NOSUCHCHANNEL"]
  ELSE IF ~is_user_on_channel(pre[1], n) THEN [ch |-> pre, reply |-> "ERR_NOTONCHANNEL"]
  ELSE LET r == apply_mode(pre[1], mode, args, n) IN
       [ch |-> Some(r.ch), reply |-> IF r.reply = "OK" THEN "RPL_MODESET" ELSE r.reply]

\* MODE <name> <mode> [<arg>] from n's client.
ClientMode(n, name, mode, args) ==
  LET s == Home[n]
      pre == get(chans[s], name)
      r == set_channel_mode(pre, n, mode, args)
  IN /\ CanCommand(n)
     /\ chans' = IF is_some(pre) THEN [chans EXCEPT ![s][name] = r.ch[1]] ELSE chans
     /\ inq' = [inq EXCEPT ![s] = IF r.reply = "RPL_MODESET" /\ is_multiserver(name)
                                    THEN Append(@, Message(n, "MODE", name, mode, args)) ELSE @]
     /\ last' = Record("MODE", n, name, mode, args, r.reply, pre, 0, r.ch)
     /\ cmds' = cmds - 1
     /\ UNCHANGED <<users, users_clients, peer_up, link, rcv, exited, adm>>

Plus(X) == CASE X = "k" -> "+k" [] X = "l" -> "+l" [] X = "i" -> "+i"
             [] X = "o" -> "+o" [] X = "t" -> "+t" [] X = "s" -> "+s"
Minus(X) == CASE X = "k" -> "-k" [] X = "l" -> "-l" [] X = "i" -> "-i"
              [] X = "o" -> "-o" [] X = "t" -> "-t" [] X = "s" -> "-s"

\* MODE <name> +X [<arg>] directly followed by MODE <name> -X from n's
\* client: the handler thread serves the two lines one after the other.
ClientModeTwice(n, name, X, args) ==
  LET s == Home[n]
      pre == get(chans[s], name)
      r1 == set_channel_mode(pre, n, Plus(X), args)
      r2 == set_channel_mode(r1.ch, n, Minus(X), IF X = "o" THEN args ELSE << >>)
      told == (IF r1.reply = "RPL_MODESET" /\ is_multiserver(name)
                 THEN <<Message(n, "MODE", name, Plus(X), args)>> ELSE << >>)
              \o (IF r2.reply = "RPL_MODESET" /\ is_multiserver(name)
                    THEN <<Message(n, "MODE", name, Minus(X), IF X = "o" THEN args ELSE << >>)>>
                    ELSE << >>)
  IN /\ CanCommand(n)
     /\ cmds > 1
     /\ Len(inq[s]) + Len(told) <= MaxInq
     /\ chans' = IF is_some(pre) THEN [chans EXCEPT ![s][name] = r2.ch[1]] ELSE chans
     /\ inq' = [inq EXCEPT ![s] = @ \o told]
     /\ last' = [Record("MODE MODE", n, name, X, args, r2.reply, pre, 0, r2.ch) EXCEPT !.mid = r1.ch]
     /\ cmds' = cmds - 2
     /\ UNCHANGED <<users, users_clients, peer_up, link, rcv, exited, adm>>

\* AWAY <text> from n's client (handle_away of the session handler with a
\* parameter): the users map is updated and the message handed on.
ClientAway(n, text) ==
  LET s == Home[n] IN
  /\ CanCommand(n)
  /\ users' = [users EXCEPT ![s][n].away_message = Some(text)]
  /\ inq' = [inq EXCEPT ![s] = Append(@, Message(n, "AWAY", "", "", <<text>>))]
  /\ last' = Record("AWAY", n, "", "", <<text>>, "RPL_NOWAWAY", NoneV, 0, NoneV)
  /\ cmds' = cmds - 1
  /\ UNCHANGED <<chans, users_clients, peer_up, link, rcv, exited, adm>>

\* PRIVMSG <name> :<text> from n's client, name a channel: private_message
\* and send_message_to_channel of the session handler.
ClientPrivmsg(n, name, text) ==
  LET s == Home[n]
      pre == get(chans[s], name)
      reply == IF ~is_some(pre) THEN "ERR_NOSUCHNICK"
               ELSE IF ~is_user_on_channel(pre[1], n) THEN "ERR_NOTONCHANNEL"
               ELSE "OK"
  IN /\ CanCommand(n)
     /\ inq' = [inq EXCEPT ![s] = IF reply = "OK"
                                    THEN Append(@, Message(n, "PRIVMSG", name, "", <<text>>)) ELSE @]
     /\ last' = Record("PRIVMSG", n, name, "", <<text>>, reply, pre, 0, pre)
     /\ cmds' = cmds - 1
     /\ UNCHANGED <<chans, users, users_clients, peer_up, link, rcv, exited, adm>>

\* ---------------------------------------------------------- server roles
is_main(s) == s = MainName

\* The servers a message is handed to by ServerRol::notify,
\* ::notify_all_but and ::send_message_to_server of MainServer and
\* SecondaryServer.
notify(s) == IF is_main(s) THEN Secondaries ELSE {MainName}
notify_all_but(s, skip) ==
  IF is_main(s) THEN Secondaries \ {skip}
  ELSE IF skip = MainName THEN {} ELSE {MainName}
send_message_to_server(s, name) ==
  IF is_main(s) THEN {name} \cap Secondaries ELSE {MainName}

\* ----------------------------------------------------------- coordinator
\* What handling one message does: the new channels and users maps of the
\* server, how many copies of the message go to each peer, which local
\* sessions get a copy, and the error returned, if any.
Outcome(ch, us, out, dl, err) == [ch |-> ch, us |-> us, out |-> out, dl |-> dl, err |-> err]
Copies(D) == [t \in Servers |-> IF t \in D THEN 1 ELSE 0]
Fail(s, kind, text) == {Outcome(chans[s], users[s], Copies({}), {}, Some(<<kind, text>>))}

\* One message sent to the servers D, then to the local sessions dl.  A send
\* to a peer whose handler thread has ended fails and the handler returns at
\* once; the peers served before it are any of the others (map order).
Sent(s, ch, us, D, dl) ==
  IF \A t \in D : <<s, t>> \in peer_up
    THEN {Outcome(ch, us, Copies(D), dl, NoneV)}
    ELSE {Outcome(ch, us, Copies(X), {}, Some(<<"CRITICAL", "Couldn't send">>)) :
            X \in SUBSET {t \in D : <<s, t>> \in peer_up}}

handle_join(s, m) ==
  LET n == m.prefix
      name == m.target
      C == chans[s]
  IN IF n \notin DOMAIN users[s] THEN Fail(s, "CRITICAL", "user not found")
     ELSE LET home == users[s][n].server_name IN
     IF name \notin DOMAIN C
       THEN Sent(s, insert(C, name, ChannelNew(n)), users[s],
                 IF is_main(s) THEN notify_all_but(s, home) ELSE {}, {})
     ELSE IF ~is_user_on_channel(C[name], n)
       THEN Sent(s, [C EXCEPT ![name].users = @ \cup {n}], users[s],
                 IF is_main(s) THEN notify_all_but(s, home) ELSE {}, {})
     ELSE Sent(s, C, users[s], notify_all_but(s, home), {})

handle_part(s, m) ==
  LET n == m.prefix
      name == m.target
      C == chans[s]
  IN IF n \notin DOMAIN users[s] THEN Fail(s, "NONCRITICAL", "user not found")
     ELSE IF name \notin DOMAIN C THEN Fail(s, "CRITICAL", "channel not found")
     ELSE LET home == users[s][n].server_name IN
     IF is_user_on_channel(C[name], n)
       THEN UNION {Sent(s, [C EXCEPT ![name] = part(C[name], n, promoted).ch],
                        [users[s] EXCEPT ![n] = remove_channel(@, name)],
                        IF is_main(s) THEN notify_all_but(s, home) ELSE {}, {}) :
                   promoted \in (IF C[name].users \ {n} = {} THEN {n} ELSE C[name].users \ {n})}
       ELSE Sent(s, C, users[s], notify(s), {})

handle_kick(s, m) ==
  LET name == m.target
      kicked == m.args[1]
      C == chans[s]
  IN IF name \notin DOMAIN C THEN Fail(s, "CRITICAL", "channel not found")
     ELSE IF m.prefix \notin DOMAIN users[s] THEN Fail(s, "CRITICAL", "user not found")
     ELSE IF ~is_user_on_channel(C[name], kicked)
       THEN Sent(s, C, users[s],
                 IF users[s][m.prefix].server_name = s THEN notify(s) ELSE {},
                 {kicked} \cap users_clients[s])
     ELSE Sent(s, C, users[s], {}, {})

handle_invite(s, m) ==
  LET receiver == m.args[1] IN
  IF receiver \notin DOMAIN users[s] THEN Fail(s, "CRITICAL", "user not found")
  ELSE IF users[s][receiver].server_name = s
    THEN IF receiver \in users_clients[s]
           THEN Sent(s, chans[s], users[s], {}, {receiver})
           ELSE Fail(s, "NONCRITICAL", "client not found")
    ELSE Sent(s, chans[s], users[s],
              send_message_to_server(s, users[s][receiver].server_name), {})

handle_mode(s, m) ==
  IF m.prefix \notin DOMAIN users[s] THEN Fail(s, "NONCRITICAL", "user not found")
  ELSE IF users[s][m.prefix].server_name = s \/ is_main(s)
    THEN Sent(s, chans[s], users[s], notify(s), {})
    ELSE Sent(s, chans[s], users[s], {}, {})

handle_topic(s, m) ==
  LET n == m.prefix
      name == m.target
      topic == m.args[1]
      C == chans[s]
  IN IF n \notin DOMAIN users[s] THEN Fail(s, "CRITICAL", "user not found")
     ELSE IF name \notin DOMAIN C THEN Fail(s, "NONCRITICAL", "channel not found")
     ELSE IF ~channel_has_topic(C[name], topic)
       THEN Sent(s, [C EXCEPT ![name] = set_topic(@, n, topic).ch], users[s],
                 IF is_main(s) THEN notify_all_but(s, users[s][n].server_name) ELSE {}, {})
       ELSE Sent(s, C, users[s], notify(s), {})

is_away(u) == is_some(u.away_message)
has_away_message(u, text) == u.away_message = Some(text)

handle_away(s, m) ==
  LET n == m.prefix IN
  IF n \notin DOMAIN users[s] THEN Fail(s, "CRITICAL", "user not found")
  ELSE LET u == users[s][n]
           fan == IF is_main(s) THEN notify_all_but(s, u.server_name) ELSE {}
       IN IF Len(m.args) = 0
            THEN IF is_away(u)
                   THEN Sent(s, chans[s], [users[s] EXCEPT ![n].away_message = NoneV], fan, {})
                   ELSE Sent(s, chans[s], users[s], notify(s), {})
            ELSE IF ~has_away_message(u, m.args[1])
                   THEN Sent(s, chans[s], [users[s] EXCEPT ![n].away_message = Some(m.args[1])],
                             fan, {})
                   ELSE Sent(s, chans[s], users[s], notify(s), {})

\* Server::send_priv_msg: Ok(TRUE) send, Ok(FALSE) skip, Err when a user is
\* not in the users map.
send_priv_msg(s, sender, receiver) ==
  IF receiver \in users_clients[s] THEN "true"
  ELSE IF sender \notin DOMAIN users[s] \/ receiver \notin DOMAIN users[s] THEN "Err"
  ELSE IF users[s][sender].server_name = users[s][receiver].server_name THEN "false"
  ELSE "true"

\* Server::send_message_to_channel: the members are visited in map order;
\* each one that is not the sender and passes send_priv_msg gets the message
\* through send_message_to_receiver, on its session queue when it has a
\* session here and through its home server otherwise.  The first failure
\* ends the loop.
send_message_to_channel(s, m) ==
  LET name == m.target
      sender == m.prefix
      C == chans[s]
  IN IF name \notin DOMAIN C THEN Fail(s, "CRITICAL", "Couldn't get channel")
     ELSE
       LET M == C[name].users
           wanted == {x \in M : send_priv_msg(s, sender, x) = "true" /\ x # sender}
           local == wanted \cap users_clients[s]
           dest(x) == send_message_to_server(s, users[s][x].server_name)
           bad == {x \in M : send_priv_msg(s, sender, x) = "Err"}
           dead == {x \in wanted \ local : \E t \in dest(x) : <<s, t>> \notin peer_up}
           copies(X) == [t \in Servers |-> Cardinality({x \in X \ local : t \in dest(x)})]
       IN IF bad \cup dead = {}
            THEN {Outcome(C, users[s], copies(wanted), local, NoneV)}
            ELSE {Outcome(C, users[s], copies(X), X \cap local,
                          Some(IF f \in bad THEN <<"NONCRITICAL", "User doesn't exist">>
                                            ELSE <<"CRITICAL", "Couldn't send">>)) :
                    X \in SUBSET (wanted \ dead), f \in bad \cup dead}

\* A receiver that contains '#' or '&' names a channel.
names_channel(receiver) == receiver \in {"#c", "#x"} \cup Filler

\* Server::send_message_to_receiver for the message of the coordinator: the
\* session of a local receiver gets it, any other receiver's home server
\* gets it; the record of a receiver that is not local is unwrapped.
send_message_to_user(s, m, receiver) ==
  IF receiver \in users_clients[s]
    THEN {Outcome(chans[s], users[s], Copies({}), {receiver}, NoneV)}
  ELSE IF receiver \notin DOMAIN users[s] THEN Fail(s, "PANIC", "unwrap on None")
  ELSE Sent(s, chans[s], users[s], send_message_to_server(s, users[s][receiver].server_name), {})

\* The receiver is the first element of the first parameter, whatever else
\* the list holds.
handle_private_message(s, m) ==
  IF names_channel(m.target) THEN send_message_to_channel(s, m)
  ELSE send_message_to_user(s, m, m.target)

\* The user a REGISTRATION or USERS_INFO message describes (add_new_user):
\* the message carries the nickname, the home server and the password.
user_from_message(m) ==
  [server_name |-> m.args[1], password |-> m.args[2], channels |-> {}, away_message |-> NoneV]

\* Server::handle_registration: an unknown nickname is added, and the main
\* server tells the other servers; a known one is left as it is, and its
\* home server tells the others.
handle_registration(s, m) ==
  LET nickname == m.prefix IN
  IF nickname \notin DOMAIN users[s]
    THEN Sent(s, chans[s], insert(users[s], nickname, user_from_message(m)),
              IF is_main(s) THEN notify_all_but(s, user_from_message(m).server_name) ELSE {}, {})
    ELSE Sent(s, chans[s], users[s],
              IF users[s][nickname].server_name = s THEN notify_all_but(s, s) ELSE {}, {})

\* Server::check_messages: the dispatch on the command.
check_messages(s, m) ==
  CASE m.command = "JOIN" -> handle_join(s, m)
    [] m.command = "REGISTRATION" -> handle_registration(s, m)
    [] m.command = "PART" -> handle_part(s, m)
    [] m.command = "KICK" -> handle_kick(s, m)
    [] m.command = "INVITE" -> handle_invite(s, m)
    [] m.command = "MODE" -> handle_mode(s, m)
    [] m.command = "TOPIC" -> handle_topic(s, m)
    [] m.command = "AWAY" -> handle_away(s, m)
    [] m.command = "PRIVMSG" -> handle_private_message(s, m)
    [] OTHER -> Fail(s, "Message", "command not existing")

AppendN(q, m, k) == q \o [i \in 1..k |-> m]

\* A session queue that hands out the newest message first.
send_message_to_receiver_lifo(q, m) == <<m>> \o q

\* Server::send_message_to_receiver for a user with a session here: the
\* message is sent on the session's queue, which its handler reads in order.
send_message_to_receiver(q, m) == Append(q, m)

\* One iteration of Server::run on server s: take the next message of the
\* inbound queue and handle it; a CRITICAL error ends the loop (and with it
\* the process).
Coordinator(s) ==
  /\ exited[s] = NoneV
  /\ squit[s] = NoneV
  /\ inq[s] # << >>
  /\ Head(inq[s]).command \notin {"OPER", "SQUIT", "SERVER", "QUIT"}
  /\ LET m == Head(inq[s]) IN
     \E r \in check_messages(s, m) :
       /\ \A t \in Servers : r.out[t] > 0 => Len(link[<<s, t>>]) + r.out[t] <= MaxLink
       /\ \A n \in r.dl : Len(rcv[n]) < MaxRcv
       /\ chans' = [chans EXCEPT ![s] = r.ch]
       /\ users' = [users EXCEPT ![s] = r.us]
       /\ link' = [l \in Links |-> IF l[1] = s THEN AppendN(link[l], m, r.out[l[2]]) ELSE link[l]]
       /\ rcv' = [n \in Nicks |-> IF n \in r.dl THEN send_message_to_receiver(rcv[n], m)
                                                 ELSE rcv[n]]
       /\ exited' = [exited EXCEPT ![s] =
                       IF is_some(r.err) /\ r.err[1][1] \in {"CRITICAL", "PANIC"}
                         THEN Some(r.err[1][2]) ELSE @]
  /\ inq' = [inq EXCEPT ![s] = Tail(@)]
  /\ UNCHANGED <<users_clients, peer_up, last, cmds, adm>>

\* ----------------------------------------------------------- peer handler
\* What the handler thread of server t does with a message read from its
\* peer (handle_server_message): the new channels map, whether the message
\* goes on to the coordinator, whether it is written back to the peer, and
\* whether the handler ends with a CRITICAL error.
Handled(ch, fwd, echo, err) == [ch |-> ch, fwd |-> fwd, echo |-> echo, err |-> err]

handle_kick_multiserver(t, m) ==
  LET name == m.target
      kicked == m.args[1]
      C == chans[t]
  IN IF name \notin DOMAIN C THEN Handled(C, FALSE, FALSE, TRUE)
     ELSE IF ~is_user_on_channel(C[name], kicked) THEN Handled(C, FALSE, TRUE, FALSE)
     ELSE Handled([C EXCEPT ![name] = remove_user(@, kicked)], TRUE, FALSE, FALSE)

handle_mode_multiserver(t, m) ==
  LET name == m.target
      C == chans[t]
  IN IF m.prefix \notin DOMAIN users[t] THEN Handled(C, FALSE, FALSE, TRUE)
     ELSE IF users[t][m.prefix].server_name = t THEN Handled(C, FALSE, FALSE, FALSE)
     ELSE IF name \notin DOMAIN C THEN Handled(C, FALSE, FALSE, TRUE)
     ELSE IF m.mode \notin Modes THEN Handled(C, FALSE, FALSE, TRUE)
     ELSE Handled([C EXCEPT ![name] = apply_mode(@, m.mode, m.args, m.prefix).ch],
                  TRUE, FALSE, FALSE)

is_user_invited(ch, nick) == nick \in ch.invites

handle_invite_multiserver(t, m) ==
  LET name == m.target
      C == chans[t]
  IN IF name \notin DOMAIN C THEN Handled(C, FALSE, FALSE, TRUE)
     ELSE IF ~is_user_invited(C[name], m.args[1])
       THEN Handled([C EXCEPT ![name] = save_invite(@, m.args[1], m.prefix).ch], TRUE, FALSE, FALSE)
       ELSE Handled(C, TRUE, FALSE, FALSE)

handle_server_message(t, m) ==
  CASE m.command = "KICK" -> handle_kick_multiserver(t, m)
    [] m.command = "MODE" -> handle_mode_multiserver(t, m)
    [] m.command = "INVITE" -> handle_invite_multiserver(t, m)
    [] m.command \in {"JOIN", "PART", "TOPIC", "AWAY", "PRIVMSG", "REGISTRATION"} ->
         Handled(chans[t], TRUE, FALSE, FALSE)
    [] OTHER -> Handled(chans[t], FALSE, FALSE, FALSE)

\* The handler thread of t for its peer s reads the next line s sent.
PeerHandler(s, t) ==
  /\ <<s, t>> \in Links
  /\ exited[t] = NoneV
  /\ <<t, s>> \in peer_up
  /\ <<t, s>> \notin peer_wait
  /\ link[<<s, t>>] # << >>
  /\ Head(link[<<s, t>>]).command \notin {"SQUIT", "USERS_INFO", "CHANNEL_INFO"}
  /\ LET m == Head(link[<<s, t>>])
         r == handle_server_message(t, m)
     IN /\ r.fwd => Len(inq[t]) < MaxInq
        /\ r.echo => Len(link[<<t, s>>]) < MaxLink
        /\ chans' = [chans EXCEPT ![t] = r.ch]
        /\ inq' = [inq EXCEPT ![t] = IF r.fwd THEN Append(@, m) ELSE @]
        /\ link' = [l \in Links |->
                      IF l = <<s, t>> THEN Tail(link[l])
                      ELSE IF l = <<t, s>> /\ r.echo THEN Append(link[l], m)
                      ELSE link[l]]
        /\ peer_up' = IF r.err THEN peer_up \ {<<t, s>>} ELSE peer_up
  /\ UNCHANGED <<users, users_clients, rcv, exited, last, cmds, adm>>

\* -------------------------------------------------------- specifications
Actors == {"a", "b"}

\* Membership of the federated channel: JOIN, PART and KICK from the clients
\* of two servers.
Client ==
  \E n \in Actors :
    \/ ClientJoin(n, "#c", NoneV)
    \/ ClientPart(n, "#c")
    \/ \E k \in Actors : ClientKick(n, "#c", k)

System ==
  \/ \E s \in Servers : Coordinator(s)
  \/ \E l \in Links : PeerHandler(l[1], l[2])

Next == Client \/ System

Spec == Init /\ [][Next]_vars

\* A local channel on one secondary server: every channel command from the
\* two users of that server.  The user c may already sit in
\* MAX_USER_CHANNELS other local channels it created.
ChanServer == "sec1"
ChanUsers == {"b", "c"}
ModeArgs(mode) ==
  CASE mode = "+k" -> {<< >>, <<"k1">>}
    [] mode = "+l" -> {<< >>, <<"1">>, <<"2">>, <<"x">>}
    [] mode \in {"+o", "-o"} -> {<<"b">>, <<"c">>}
    [] mode \in {"+b", "-b"} -> {<< >>, <<"c">>}
    [] OTHER -> {<< >>}

InitChan ==
  /\ \E full \in BOOLEAN :
       /\ chans = [s \in Servers |-> IF s = ChanServer /\ full
                                       THEN [f \in Filler |-> ChannelNew("c")] ELSE << >>]
       /\ users = [s \in Servers |-> [n \in Nicks |->
                     IF s = ChanServer /\ full /\ n = "c"
                       THEN [NewUser(n) EXCEPT !.channels = Filler] ELSE NewUser(n)]]
  /\ users_clients = [s \in Servers |-> {n \in Nicks : Home[n] = s}]
  /\ peer_up = Links
  /\ inq = [s \in Servers |-> << >>]
  /\ link = [l \in Links |-> << >>]
  /\ rcv = [n \in Nicks |-> << >>]
  /\ exited = [s \in Servers |-> NoneV]
  /\ last = NoCmd
  /\ cmds = MaxChanCmds
  /\ AdmInit

ClientChan ==
  \E n \in ChanUsers :
    \/ \E key \in {NoneV, Some("k1"), Some("k2")} : ClientJoin(n, "&l", key)
    \/ ClientPart(n, "&l")
    \/ \E k \in ChanUsers : ClientKick(n, "&l", k)
    \/ \E i \in {"c", "d"} : ClientInvite(n, i, "&l")
    \/ ClientTopic(n, "&l", "t1")
    \/ \E mode \in Modes : \E args \in ModeArgs(mode) : ClientMode(n, "&l", mode, args)
    \/ \E X \in {"k", "l", "i", "o", "t", "s"} : \E args \in ModeArgs(Plus(X)) :
         ClientModeTwice(n, "&l", X, args)
    \/ ClientPrivmsg(n, "&l", "m1")

NextChan == ClientChan \/ System

SpecChan == InitChan /\ [][NextChan]_vars

\* The state after creator created #c and the other users of J joined it,
\* once every JOIN has reached every server.
Joined(J, creator, budget) ==
  /\ chans = [s \in Servers |-> [name \in {"#c"} |-> [ChannelNew(creator) EXCEPT !.users = J]]]
  /\ users = [s \in Servers |-> [n \in Nicks |->
                IF Home[n] = s /\ n \in J THEN add_channel(NewUser(n), "#c") ELSE NewUser(n)]]
  /\ users_clients = [s \in Servers |-> {n \in Nicks : Home[n] = s}]
  /\ peer_up = Links
  /\ inq = [s \in Servers |-> << >>]
  /\ link = [l \in Links |-> << >>]
  /\ rcv = [n \in Nicks |-> << >>]
  /\ exited = [s \in Servers |-> NoneV]
  /\ last = NoCmd
  /\ cmds = budget
  /\ AdmInit

\* Messages to the channel all four users are members of; every PRIVMSG
\* carries a text of its own.
InitMsg == Joined(Nicks, "a", MaxMsgs)

ClientMsg == \E n \in Nicks : ClientPrivmsg(n, "#c", ToString(cmds))

NextMsg == ClientMsg \/ System

SpecMsg == InitMsg /\ [][NextMsg]_vars

\* TOPIC and AWAY from the clients of the main and of one secondary server,
\* both members of #c.
InitEcho == Joined({"a", "b"}, "a", MaxEcho)

ClientEcho ==
  \E n \in {"a", "b"} :
    \/ ClientTopic(n, "#c", "t1")
    \/ ClientAway(n, "x")

NextEcho == ClientEcho \/ System

SpecEcho == InitEcho /\ [][NextEcho]_vars

\* ----------------------------------------------------------------- claims
\* C2: every channel held in a server's channels map has at least one
\* member; a PART, KICK or replayed removal that takes the last member out
\* deletes the channel.
C2_NoEmptyChannel ==
  \A s \in Servers : \A name \in DOMAIN chans[s] : ~is_empty(chans[s][name])

\* C3: on every server, a channel copy with at least one member has at
\* least one operator.
C3_MembersHaveOperator ==
  \A s \in Servers : \A name \in DOMAIN chans[s] :
    chans[s][name].users # {} => chans[s][name].operators # {}

\* C6: the coordinator's loop ends only as the result of SQUIT; no error in
\* one session's traffic (such as PART by the last member) ends it.
C6_LoopEndsOnlyOnSquit ==
  \A s \in Servers : is_some(exited[s]) => exited[s] = Some("SQUIT")

\* A JOIN that found the channel in the map, as the session handler served it.
JoinServed == last.command = "JOIN" /\ is_some(last.pre)

C4_WitnessBannedFirst ==
  /\ JoinServed
  /\ last.reply = "ERR_BANNEDFROMCHAN"
  /\ last.nch = 10

\* The enter-mode of the channel before and after the last client command.
EnterModeBefore == IF is_some(last.pre) THEN last.pre[1].enter_mode ELSE NoneV
EnterModeAfter == IF is_some(last.post) THEN last.post[1].enter_mode ELSE NoneV

\* C8: a channel starts with enter-mode None and the enter-mode changes only
\* by: None to Invite on +i, None to Key on +k, Invite to None on -i (invites
\* cleared), Key to None on -k, Invite to Key on +k (invites cleared), Key to
\* Invite on +i (key cleared); no other mode operation changes it.
C8_EnterModeTransitions ==
  /\ (last.command = "JOIN" /\ ~is_some(last.pre)) => last.post[1].enter_mode = NoneV
  /\ (last.command # "" /\ last.command # "MODE MODE" /\ is_some(last.pre) /\ is_some(last.post)
      /\ EnterModeBefore # EnterModeAfter) =>
       /\ last.command = "MODE"
       /\ \/ EnterModeBefore = NoneV /\ last.mode = "+i" /\ EnterModeAfter = Some("+i")
          \/ EnterModeBefore = NoneV /\ last.mode = "+k" /\ EnterModeAfter = Some("+k")
          \/ /\ EnterModeBefore = Some("+i") /\ last.mode = "-i" /\ EnterModeAfter = NoneV
             /\ last.post[1].invites = {}
          \/ EnterModeBefore = Some("+k") /\ last.mode = "-k" /\ EnterModeAfter = NoneV
          \/ /\ EnterModeBefore = Some("+i") /\ last.mode = "+k" /\ EnterModeAfter = Some("+k")
             /\ last.post[1].invites = {}
          \/ /\ EnterModeBefore = Some("+k") /\ last.mode = "+i" /\ EnterModeAfter = Some("+i")
             /\ last.post[1].key = NoneV

\* +X directly followed by -X, both from a member who is an operator.
ToggledByOperator ==
  /\ last.command = "MODE MODE"
  /\ is_some(last.pre)
  /\ last.nick \in last.pre[1].users
  /\ last.nick \in last.pre[1].operators

\* C9 as stated: for X in {k, l, i, o, t, s}, +X followed by -X from an
\* operator leaves the channel exactly as it was before +X.
C9_ToggleRestores == ToggledByOperator => last.post = last.pre

\* The mode X is not in effect on the channel before +X.
NotInEffect ==
  LET ch == last.pre[1] IN
  CASE last.mode \in {"k", "i"} ->
         ch.enter_mode = NoneV /\ ch.key = NoneV /\ ch.invites = {}
    [] last.mode = "l" -> ch.limit = NoneV
    [] last.mode = "o" -> Len(last.args) = 1 /\ last.args[1] \notin ch.operators
    [] last.mode = "t" -> ~ch.operator_settable_topic
    [] last.mode = "s" -> ~ch.secret

\* C9 amended: +X followed by -X from an operator restores the channel when
\* X was not in effect before +X (for k and i: enter-mode None, no key and
\* no pending invites; for l: no limit; for o: the target not an operator;
\* for t and s: the flag off).
C9_ToggleRestoresWhenOff == (ToggledByOperator /\ NotInEffect) => last.post = last.pre

\* +k k1 then -k on a channel without enter-mode: the key was set in between.
C9_Witness ==
  /\ ToggledByOperator /\ NotInEffect
  /\ last.mode = "k"
  /\ is_some(last.mid) /\ last.mid[1].key = Some("k1")
  /\ last.post = last.pre

\* C10: no message about a channel whose name starts with & is on its way
\* to a peer server.
C10_LocalChannelsStayLocal ==
  \A l \in Links : \A i \in 1..Len(link[l]) :
    link[l][i].target # "" => is_multiserver(link[l][i].target)

\* The PRIVMSGs on n's session queue.
Received(n) == {rcv[n][i] : i \in 1..Len(rcv[n])}
Copies_of(n, m) == Cardinality({i \in 1..Len(rcv[n]) : rcv[n][i] = m})
First(n, m) == CHOOSE i \in 1..Len(rcv[n]) : rcv[n][i] = m /\ \A j \in 1..(i - 1) : rcv[n][j] # m

\* C1: a PRIVMSG to a channel reaches every member other than the sender
\* exactly once and the sender not at all: no session queue holds two
\* copies of one PRIVMSG or a copy of the user's own.
C1_AtMostOnce ==
  \A n \in Nicks : \A m \in Received(n) :
    m.command = "PRIVMSG" => (m.prefix # n /\ Copies_of(n, m) = 1)

Handles(s, m) == inq[s] # << >> /\ Head(inq[s]) = m /\ inq'[s] = Tail(inq[s])

\* The TOPIC or AWAY is by a user of another server and what it asks for is
\* what server s already holds.
AlreadyReflected(s, m) ==
  /\ m.command \in {"TOPIC", "AWAY"}
  /\ m.prefix \in DOMAIN users[s]
  /\ users[s][m.prefix].server_name # s
  /\ m.command = "TOPIC" =>
       m.target \in DOMAIN chans[s] /\ chans[s][m.target].topic = Some(m.args[1])
  /\ m.command = "AWAY" => users[s][m.prefix].away_message = Some(m.args[1])

\* C5: a TOPIC or AWAY received from a peer whose effect the receiver's
\* state already shows changes nothing and sends no message to any peer.
C5_ReplayIsSilent ==
  [][\A s \in Servers : \A m \in {Head(inq[t]) : t \in {u \in Servers : inq[u] # << >>}} :
       (Handles(s, m) /\ AlreadyReflected(s, m)) =>
         (link' = link /\ chans' = chans /\ users' = users)]_vars

\* C11: when a coordinator handles a PRIVMSG to a channel, it sends at most
\* one copy of it to each peer server, however many members that server
\* hosts.
C11_OncePerServer ==
  [][\A s \in Servers : \A l \in Links :
       (/\ inq[s] # << >>
        /\ Head(inq[s]).command = "PRIVMSG"
        /\ inq'[s] = Tail(inq[s])
        /\ l[1] = s) =>
         Len(link'[l]) <= Len(link[l]) + 1]_vars

\* C12: when the main server's coordinator handles a KICK on a federated
\* channel, it sends the KICK to every peer except the home server of the
\* user who kicked, also when that home server is a secondary.  (A user
\* kicking itself is left aside: Channel::kick removes nobody then.)
C12_KickFanOut ==
  [][\A t \in Secondaries :
       (/\ inq[MainName] # << >>
        /\ Head(inq[MainName]).command = "KICK"
        /\ is_multiserver(Head(inq[MainName]).target)
        /\ inq'[MainName] = Tail(inq[MainName])
        /\ exited'[MainName] = NoneV
        /\ Head(inq[MainName]).prefix \in Nicks
        /\ Head(inq[MainName]).args # <<Head(inq[MainName]).prefix>>
        /\ t # Home[Head(inq[MainName]).prefix]) =>
         link'[<<MainName, t>>] = Append(link[<<MainName, t>>], Head(inq[MainName]))]_vars

\* ---------------------------------------------------------- administration
\* The parameter a coordinator puts in the place of the server name when it
\* answers a SQUIT or an OPER.
NotAnOperator == "You are not an operator"
ServerNotFound == "Server not found"
WrongPassword == "Wrong password"
NowAnOperator == "You are now an operator"

\* Message.prefix = None is the empty prefix (no nickname is empty).
NoPrefix == ""

\* What a handler has sent so far: the links, the session queues, the peer
\* handlers still waiting for an answer, and the error it returned, if any.
IO(lk, rc, pw, err) == [link |-> lk, rcv |-> rc, wait |-> pw, err |-> err]

\* Sender::send on the queue of the handler thread of s for peer t.  A
\* handler waiting in handle_squit takes the message as its answer and writes
\* it to the peer only if it says NotAnOperator.
send_to_handler(io, s, x, t) ==
  LET l == <<s, t>> IN
  IF is_some(io.err) THEN io
  ELSE IF l \notin peer_up THEN [io EXCEPT !.err = Some(<<"CRITICAL", "Couldn't send">>)]
  ELSE IF l \in io.wait
    THEN [io EXCEPT !.wait = @ \ {l},
                    !.link[l] = IF x.target = NotAnOperator THEN Append(@, x) ELSE @]
  ELSE [io EXCEPT !.link[l] = Append(@, x)]

\* ServerRol::send_message_to_server, one message to the server called name.
send_message_to_server_io(io, s, x, name) ==
  IF is_some(io.err) THEN io
  ELSE IF ~is_main(s) THEN send_to_handler(io, s, x, MainName)
  ELSE IF name \in Secondaries THEN send_to_handler(io, s, x, name)
  ELSE [io EXCEPT !.err = Some(<<"NONCRITICAL", "Server doesn't exist">>)]

\* ServerRol::notify, one message to every peer; when a peer's handler has
\* ended the send fails after any of the other peers were served.
notify_io(io, s, x) ==
  IF is_some(io.err) THEN {io}
  ELSE IF is_main(s)
    THEN IF \A t \in Secondaries : <<s, t>> \in peer_up
           THEN {send_to_handler(send_to_handler(io, s, x, "sec1"), s, x, "sec2")}
           ELSE {[io EXCEPT !.err = Some(<<"CRITICAL", "Couldn't send 2">>),
                            !.link = [l \in Links |-> IF l[1] = s /\ l[2] \in X
                                                        THEN Append(@[l], x) ELSE @[l]]] :
                   X \in SUBSET {t \in Secondaries : <<s, t>> \in peer_up}}
    ELSE {send_to_handler(io, s, x, MainName)}

\* Server::send_message_to_receiver: the session queue of a user connected
\* here, the user's home server otherwise.
send_message_to_receiver_io(io, s, x, r) ==
  IF is_some(io.err) THEN io
  ELSE IF r \in users_clients[s]
    THEN IF sess[r].st = "done"
           THEN [io EXCEPT !.err = Some(<<"CRITICAL", "Couldn't send">>)]
           ELSE [io EXCEPT !.rcv[r] = send_message_to_receiver(@, x)]
  ELSE IF r \notin DOMAIN users[s] THEN [io EXCEPT !.err = Some(<<"PANIC", "unwrap on None">>)]
  ELSE send_message_to_server_io(io, s, x, users[s][r].server_name)

\* What handling an OPER or a SQUIT does: what was sent, the operator the
\* server records afterwards, and whether the server stops for this message.
Adm(io, op, stop) == [io |-> io, op |-> op, stop |-> stop]

\* Server::handle_operator.
handle_operator(s, m) ==
  LET io0 == IO(link, rcv, peer_wait, NoneV)
      nick == m.target
      password == m.args[1]
  IN IF nick \notin DOMAIN users[s] THEN {Adm(io0, operator[s], FALSE)}
     ELSE IF users[s][nick].password = password
       THEN {Adm(send_message_to_receiver_io(io0, s, [m EXCEPT !.target = NowAnOperator, !.args = << >>], nick),
                 nick, FALSE)}
       ELSE {Adm(send_message_to_receiver_io(io0, s, [m EXCEPT !.target = WrongPassword, !.args = << >>], nick),
                 operator[s], FALSE)}

\* The QUIT a stopping server sends to its sessions.
quit_message(comment) == Message(NoPrefix, "QUIT", comment, "", << >>)

\* QUIT sent on every session queue of s; the loop returns at the first
\* session whose handler has ended, after any of the others were served.
send_quit(io, s, q) ==
  IF is_some(io.err) THEN {io}
  ELSE IF \A n \in users_clients[s] : sess[n].st # "done"
    THEN {[io EXCEPT !.rcv = [n \in Nicks |-> IF n \in users_clients[s]
                                                THEN Append(@[n], q) ELSE @[n]]]}
    ELSE {[io EXCEPT !.err = Some(<<"CRITICAL", "Couldn't set as non blocking">>),
                     !.rcv = [n \in Nicks |-> IF n \in X THEN Append(@[n], q) ELSE @[n]]] :
            X \in SUBSET {n \in users_clients[s] : sess[n].st # "done"}}

\* Server::handle_squit.  In the operator's branch the guard of the
\* users_clients lock taken for the QUIT loop is still alive when the lock
\* is taken again for the joins: that second lock never returns, the thread
\* blocks for ever or panics, and the joins and the return of the "SQUIT"
\* error are never reached.
handle_squit(s, m) ==
  LET io0 == IO(link, rcv, peer_wait, NoneV)
      user == m.prefix
      comment == IF m.args # << >> THEN m.args[1] ELSE ""
  IN IF user = NoPrefix
       THEN {Adm([io0 EXCEPT !.err = IF m.args # << >> THEN Some(<<"CRITICAL", m.args[1]>>)
                                                        ELSE Some(<<"PANIC", "index out of bounds">>)],
                 operator[s], TRUE)}
     ELSE IF m.target = NotAnOperator
       THEN {Adm(send_message_to_receiver_io(io0, s, m, user), operator[s], FALSE)}
     ELSE IF m.target = s
       THEN IF operator[s] = user
              THEN LET io1 == send_message_to_receiver_io(io0, s, m, user) IN
                   IF is_some(io1.err) THEN {Adm(io1, operator[s], FALSE)}
                   ELSE {Adm(IF is_some(io3.err) THEN io3 ELSE [io3 EXCEPT !.err = e], operator[s], TRUE) :
                           io3 \in UNION {notify_io(io2, s, [m EXCEPT !.prefix = NoPrefix]) :
                                            io2 \in send_quit(io1, s, quit_message(comment))},
                           e \in {Some(<<"DEADLOCK", "lock held">>), Some(<<"PANIC", "lock held">>)}}
              ELSE {Adm(send_message_to_receiver_io(io0, s, [m EXCEPT !.target = NotAnOperator, !.args = << >>], user),
                        operator[s], FALSE)}
     ELSE LET io1 == send_message_to_server_io(io0, s, m, m.target) IN
          IF is_some(io1.err) /\ io1.err[1][1] = "NONCRITICAL"
            THEN {Adm(send_message_to_receiver_io(io0, s, [m EXCEPT !.target = ServerNotFound, !.args = << >>], user),
                      operator[s], FALSE)}
            ELSE {Adm(io1, operator[s], FALSE)}

\* One iteration of Server::run on an OPER or a SQUIT.  A CRITICAL error and
\* a panic end the loop; a thread blocked on the lock serves nothing more.
CoordinatorAdm(s) ==
  /\ exited[s] = NoneV
  /\ squit[s] = NoneV
  /\ inq[s] # << >>
  /\ Head(inq[s]).command \in {"OPER", "SQUIT"}
  /\ LET m == Head(inq[s]) IN
     \E r \in IF m.command = "OPER" THEN handle_operator(s, m) ELSE handle_squit(s, m) :
       /\ \A l \in Links : Len(r.io.link[l]) <= MaxLink
       /\ \A n \in Nicks : Len(r.io.rcv[n]) <= MaxRcv
       /\ link' = r.io.link
       /\ rcv' = r.io.rcv
       /\ peer_wait' = r.io.wait
       /\ operator' = [operator EXCEPT ![s] = r.op]
       /\ squit' = [squit EXCEPT ![s] = IF r.stop THEN Some(m) ELSE @]
       /\ exited' = [exited EXCEPT ![s] =
                       IF is_some(r.io.err) /\ r.io.err[1][1] \in {"CRITICAL", "PANIC"}
                         THEN Some(r.io.err[1][2]) ELSE @]
  /\ inq' = [inq EXCEPT ![s] = Tail(@)]
  /\ UNCHANGED <<chans, users, users_clients, peer_up, last, cmds, sess, conn, wire, locks>>

\* OPER <nick> <password> from n's client (set_operator): the message goes
\* to the coordinator and the handler waits for the answer.
ClientOper(n, nick, password) ==
  LET s == Home[n] IN
  /\ CanCommand(n)
  /\ inq' = [inq EXCEPT ![s] = Append(@, Message(n, "OPER", nick, "", <<password>>))]
  /\ sess' = [sess EXCEPT ![n].st = "oper"]
  /\ last' = Record("OPER", n, nick, "", <<password>>, "", NoneV, 0, NoneV)
  /\ cmds' = cmds - 1
  /\ UNCHANGED <<chans, users, users_clients, peer_up, link, rcv, exited, operator, squit, peer_wait, conn, wire, locks>>

\* SQUIT <server> [<comment>] from n's client (handle_quit_server).
ClientSquit(n, name, comment) ==
  LET s == Home[n] IN
  /\ CanCommand(n)
  /\ inq' = [inq EXCEPT ![s] = Append(@, Message(n, "SQUIT", name, "", comment))]
  /\ sess' = [sess EXCEPT ![n].st = "squit"]
  /\ last' = Record("SQUIT", n, name, "", comment, "", NoneV, 0, NoneV)
  /\ cmds' = cmds - 1
  /\ UNCHANGED <<chans, users, users_clients, peer_up, link, rcv, exited, operator, squit, peer_wait, conn, wire, locks>>

\* The numeric reply set_operator and handle_quit_server make of the next
\* message on the session queue, whatever that message is.
answer_reply(st, answer) ==
  IF st = "oper"
    THEN IF answer.target = WrongPassword THEN "ERR_PASSWDMISMATCH" ELSE "RPL_YOUREOPER"
    ELSE IF answer.target = NotAnOperator THEN "ERR_NOPRIVILEGES"
    ELSE IF answer.target = ServerNotFound THEN "ERR_NOSUCHSERVER"
    ELSE "none"

\* The handler of n's session, waiting in set_operator or
\* handle_quit_server, receives the next message of its queue.
SessionAnswer(n) ==
  /\ sess[n].st \in {"oper", "squit"}
  /\ exited[Home[n]] = NoneV
  /\ sess[n].taken < Len(rcv[n])
  /\ sess' = [sess EXCEPT ![n].st = "run",
                          ![n].taken = @ + 1,
                          ![n].reply = answer_reply(sess[n].st, rcv[n][sess[n].taken + 1])]
  /\ UNCHANGED <<chans, users, users_clients, peer_up, inq, link, rcv, exited, last, cmds,
                 operator, squit, peer_wait, conn, wire, locks>>

\* ClientHandler::read_from_server of n's session: the next message of the
\* queue is written to the client.
read_from_server(n) ==
  /\ sess[n].st = "run"
  /\ exited[Home[n]] = NoneV
  /\ sess[n].taken < Len(rcv[n])
  /\ sess' = [sess EXCEPT ![n].taken = @ + 1,
                          ![n].quit = @ \/ rcv[n][sess[n].taken + 1].command = "QUIT"]
  /\ UNCHANGED <<chans, users, users_clients, peer_up, inq, link, rcv, exited, last, cmds,
                 operator, squit, peer_wait, conn, wire, locks>>

\* A client that was sent QUIT closes its socket (Client::run, ui_updater):
\* the handler reads no data and its thread ends.
ClientClose(n) ==
  /\ sess[n].st = "run"
  /\ sess[n].quit
  /\ sess' = [sess EXCEPT ![n].st = "done"]
  /\ UNCHANGED <<chans, users, users_clients, peer_up, inq, link, rcv, exited, last, cmds,
                 operator, squit, peer_wait, conn, wire, locks>>

Remove(q, i) == [j \in 1..(Len(q) - 1) |-> IF j < i THEN q[j] ELSE q[j + 1]]

\* The handler thread of t for its peer s reads a SQUIT (manage_server
\* handle_squit): it hands the message to its coordinator and takes the next
\* message of its own queue as the answer.  Of the messages the coordinator
\* sent to s, the first k are on the wire already; the next one, if any, is
\* taken at once, and is written to s only if it says NotAnOperator.
PeerSquit(s, t) ==
  /\ <<s, t>> \in Links
  /\ exited[t] = NoneV
  /\ <<t, s>> \in peer_up
  /\ <<t, s>> \notin peer_wait
  /\ link[<<s, t>>] # << >>
  /\ Head(link[<<s, t>>]).command = "SQUIT"
  /\ Len(inq[t]) < MaxInq
  /\ inq' = [inq EXCEPT ![t] = Append(@, Head(link[<<s, t>>]))]
  /\ \E k \in 0..Len(link[<<t, s>>]) :
       IF k = Len(link[<<t, s>>])
         THEN /\ peer_wait' = peer_wait \cup {<<t, s>>}
              /\ link' = [link EXCEPT ![<<s, t>>] = Tail(@)]
         ELSE /\ peer_wait' = peer_wait
              /\ link' = [link EXCEPT ![<<s, t>>] = Tail(@),
                                      ![<<t, s>>] = IF @[k + 1].target = NotAnOperator
                                                      THEN @ ELSE Remove(@, k + 1)]
  /\ UNCHANGED <<chans, users, users_clients, peer_up, rcv, exited, last, cmds,
                 operator, squit, sess, conn, wire, locks>>

\* The process of server s has ended and its sockets are closed: the handler
\* thread of t for s, having read what s sent, reads no data and ends.
PeerClosed(s, t) ==
  /\ <<s, t>> \in Links
  /\ is_some(exited[s])
  /\ exited[t] = NoneV
  /\ <<t, s>> \in peer_up
  /\ <<t, s>> \notin peer_wait
  /\ link[<<s, t>>] = << >>
  /\ peer_up' = peer_up \ {<<t, s>>}
  /\ UNCHANGED <<chans, users, users_clients, inq, link, rcv, exited, last, cmds, adm>>

\* Operators and server shutdown: OPER and SQUIT from the clients of the main
\* server and of one secondary server.
AdmActors == {"a", "b", "c"}
AdmTargets == Servers \cup {"nowhere"}

Connected(budget) ==
  /\ chans = [s \in Servers |-> << >>]
  /\ users = [s \in Servers |-> [n \in Nicks |-> NewUser(n)]]
  /\ users_clients = [s \in Servers |-> {n \in Nicks : Home[n] = s}]
  /\ peer_up = Links
  /\ inq = [s \in Servers |-> << >>]
  /\ link = [l \in Links |-> << >>]
  /\ rcv = [n \in Nicks |-> << >>]
  /\ exited = [s \in Servers |-> NoneV]
  /\ last = NoCmd
  /\ cmds = budget
  /\ AdmInit

InitAdm == Connected(MaxAdm)

ClientAdm ==
  \E n \in AdmActors :
    \/ \E password \in Passwords : ClientOper(n, n, password)
    \/ \E name \in AdmTargets : \E comment \in {<< >>, <<"bye">>} : ClientSquit(n, name, comment)
    \/ ClientClose(n)

SystemAdm ==
  \/ \E s \in Servers : CoordinatorAdm(s)
  \/ \E n \in Nicks : SessionAnswer(n)
  \/ \E n \in Nicks : read_from_server(n)
  \/ \E l \in Links : PeerSquit(l[1], l[2])
  \/ \E l \in Links : PeerClosed(l[1], l[2])

NextAdm == ClientAdm \/ SystemAdm

SpecAdm == InitAdm /\ [][NextAdm]_vars

\* C13: a server stops for a SQUIT (QUIT sent to its users, or its
\* coordinator loop ended) only if the SQUIT names this server and was
\* requested by the operator the server has recorded.
C13_StopsOnlyForOperator ==
  \A s \in Servers :
    is_some(squit[s]) =>
      /\ squit[s][1].target = s
      /\ squit[s][1].prefix # NoPrefix
      /\ squit[s][1].prefix = operator[s]

\* Every thread of every server is scheduled again and again, and a client
\* that was told to quit does close its socket.
FairAdm ==
  /\ \A s \in Servers : WF_vars(CoordinatorAdm(s))
  /\ \A n \in Nicks : WF_vars(SessionAnswer(n)) /\ WF_vars(read_from_server(n))
  /\ \A n \in AdmActors : WF_vars(ClientClose(n))
  /\ \A l \in Links : WF_vars(PeerSquit(l[1], l[2])) /\ WF_vars(PeerClosed(l[1], l[2]))

InitAdmFair == Connected(MaxAdmFair)

SpecAdmFair == InitAdmFair /\ [][NextAdm]_vars /\ FairAdm

\* The coordinator of s has taken up a SQUIT that names s and comes from the
\* operator it has recorded.
OperatorSquit(s) ==
  /\ is_some(squit[s])
  /\ squit[s][1].target = s
  /\ squit[s][1].prefix # NoPrefix
  /\ squit[s][1].prefix = operator[s]

\* C14: when the recorded operator sends a SQUIT naming this server, the
\* coordinator's event loop eventually terminates.
C14_SquitTerminates == \A s \in Servers : OperatorSquit(s) ~> is_some(exited[s])

\* ------------------------------------------------- registration and login
\* The nicknames clients ask for: a new one, one that server sec1 has
\* registered, and one that is not a nickname.
RegNicks == {"x", "b", "#x"}

\* nickname_is_valid for the nicknames above: at most nine characters, the
\* first of them none of '#', '&' and ':'.
nickname_is_valid(nickname) == nickname \notin {"#x"}

check_nickname_collision(nickname, us) == nickname \in DOMAIN us

check_registration_nick(nickname, us) ==
  IF ~nickname_is_valid(nickname) THEN Some("ERR_ERRONEUSNICKNAME")
  ELSE IF check_nickname_collision(nickname, us) THEN Some("ERR_NICKCOLLISION")
  ELSE NoneV

\* A login check that does not look at the user's home server.
check_login_any_home(nickname, password, us, server_name) ==
  /\ nickname \in DOMAIN us
  /\ us[nickname].password = password

\* check_login: the user map holds the nickname, with this server as its
\* home and with this password.
check_login(nickname, password, us, server_name) ==
  /\ nickname \in DOMAIN us
  /\ us[nickname].server_name = server_name
  /\ us[nickname].password = password

\* The handler of connection c reads the action, PASS and NICK lines
\* (handle_login_registration up to get_nickname).  A refused nickname is
\* answered at once; the handler then reads the USER line and starts again
\* from the action line.
ConnNick(c, action, nickname, password) ==
  LET s == conn[c].server
      refused == IF action = "REGISTRATION" THEN check_registration_nick(nickname, users[s])
                 ELSE NoneV
  IN /\ conn[c].st = "new"
     /\ exited[s] = NoneV
     /\ cmds > 0
     /\ cmds' = cmds - 1
     /\ conn' = [conn EXCEPT ![c] =
                   IF is_some(refused)
                     THEN [@ EXCEPT !.action = action, !.nick = nickname, !.password = password,
                                    !.reply = refused[1]]
                     ELSE [@ EXCEPT !.st = "nick", !.action = action, !.nick = nickname,
                                    !.password = password, !.reply = ""]]
     /\ UNCHANGED <<chans, users, users_clients, peer_up, inq, link, rcv, exited, last,
                    operator, squit, sess, peer_wait, wire, locks>>

\* The handler of connection c reads the USER line and logs the user in
\* (login_user) or registers it (registrate_user); on success it tells the
\* listener, which records the session under the nickname and, for a
\* registration, hands the message to the coordinator
\* (ConnectionListener::handle_connection).  The server name of a new record
\* is the one the USER line gives; the clients here give the name of the
\* server they are connected to.
ConnUser(c) ==
  LET s == conn[c].server
      nickname == conn[c].nick
      password == conn[c].password
      new_user == [server_name |-> s, password |-> password, channels |-> {},
                   away_message |-> NoneV]
  IN /\ conn[c].st = "nick"
     /\ exited[s] = NoneV
     /\ IF conn[c].action = "LOGIN"
          THEN IF check_login(nickname, password, users[s], s)
                 THEN /\ conn' = [conn EXCEPT ![c].st = "session", ![c].reply = "RPL_CORRECTLOGIN"]
                      /\ users_clients' = [users_clients EXCEPT ![s] = @ \cup {nickname}]
                      /\ UNCHANGED <<users, inq>>
                 ELSE /\ conn' = [conn EXCEPT ![c].st = "new", ![c].reply = "ERR_INVALIDLOGIN"]
                      /\ UNCHANGED <<users, users_clients, inq>>
          ELSE /\ Len(inq[s]) < MaxInq
               /\ users' = [users EXCEPT ![s] = insert(@, nickname, new_user)]
               /\ conn' = [conn EXCEPT ![c].st = "session", ![c].reply = "RPL_CORRECTREGISTRATION"]
               /\ users_clients' = [users_clients EXCEPT ![s] = @ \cup {nickname}]
               /\ inq' = [inq EXCEPT ![s] =
                            Append(@, Message(nickname, "REGISTRATION", nickname, "", <<s, password>>))]
     /\ UNCHANGED <<chans, peer_up, link, rcv, exited, last, cmds,
                    operator, squit, sess, peer_wait, wire, locks>>

\* Two clients connect, one to sec1 and one to any server, and register or
\* log in; user b of sec1 is registered and has no session.
InitReg ==
  /\ chans = [s \in Servers |-> << >>]
  /\ users = [s \in Servers |-> [n \in Nicks |-> NewUser(n)]]
  /\ users_clients = [s \in Servers |-> {n \in Nicks \ {"b"} : Home[n] = s}]
  /\ peer_up = Links
  /\ inq = [s \in Servers |-> << >>]
  /\ link = [l \in Links |-> << >>]
  /\ rcv = [n \in Nicks |-> << >>]
  /\ exited = [s \in Servers |-> NoneV]
  /\ last = NoCmd
  /\ cmds = MaxReg
  /\ operator = [s \in Servers |-> ""]
  /\ squit = [s \in Servers |-> NoneV]
  /\ sess = [n \in Nicks |-> NewSession]
  /\ peer_wait = {}
  /\ wire = NoWire
  /\ locks = NoLocks
  /\ \E t \in Servers :
       conn = [c \in Conns |-> [NoConn EXCEPT !.st = "new",
                                              !.server = IF c = 1 THEN "sec1" ELSE t]]

ClientReg ==
  \E c \in Conns :
    \/ \E action \in {"LOGIN", "REGISTRATION"} : \E nickname \in RegNicks :
         \E password \in Passwords : ConnNick(c, action, nickname, password)
    \/ ConnUser(c)

NextReg == ClientReg \/ System

SpecReg == InitReg /\ [][NextReg]_vars

\* C15: a registration never replaces or alters a user record the server
\* already holds, also when two connections register the same nickname at
\* the same time.
C15_RegistrationKeepsRecords ==
  [][\A s \in Servers : \A n \in DOMAIN users[s] :
       n \in DOMAIN users'[s] /\ users'[s][n] = users[s][n]]_vars

C17_OneUserPerNickname ==
  \A s \in Servers : \A t \in Servers : \A n \in (DOMAIN users[s]) \cap (DOMAIN users[t]) :
    /\ users[s][n].server_name = users[t][n].server_name
    /\ users[s][n].password = users[t][n].password

\* ------------------------------------------------------- a new peer server
\* A string as the line grammar sees it: its words (the pieces between
\* spaces), each word a sequence of the pieces between commas.
Words(str) ==
  CASE str = "hello world" -> <<<<"hello">>, <<"world">>>>
    [] OTHER -> <<<<str>>>>

\* Two texts joined by a comma: the last word of the first and the first
\* word of the second become one word.
Comma(t1, t2) == SubSeq(t1, 1, Len(t1) - 1) \o <<t1[Len(t1)] \o t2[1]>> \o Tail(t2)

RECURSIVE list_words(_)
list_words(list) ==
  IF Len(list) = 1 THEN Words(list[1])
  ELSE Comma(list_words(SubSeq(list, 1, Len(list) - 1)), Words(list[Len(list)]))

RECURSIVE line_words(_)
line_words(params) ==
  IF params = << >> THEN << >>
  ELSE (IF Head(params) = << >> THEN << >> ELSE list_words(Head(params)))
         \o line_words(Tail(params))

\* Message::as_string for the parameters: every non-empty list becomes a
\* word, its elements joined by commas; an empty list writes nothing.  The
\* last parameter of all, when it contains a space, gets a ':' in front: it
\* is then a trailing parameter if it is the first of its list, and glued to
\* the element before it otherwise.
as_string(params) ==
  LET full == SelectSeq(params, LAMBDA l : l # << >>)
      L == full[Len(full)]
      e == L[Len(L)]
  IN IF full = << >> THEN [words |-> << >>, trailing |-> NoneV, glued |-> FALSE]
     ELSE IF Len(Words(e)) = 1 THEN [words |-> line_words(full), trailing |-> NoneV, glued |-> FALSE]
     ELSE IF Len(L) = 1
       THEN [words |-> line_words(SubSeq(full, 1, Len(full) - 1)), trailing |-> Some(e),
             glued |-> FALSE]
       ELSE [words |-> line_words(full), trailing |-> NoneV, glued |-> TRUE]

\* parse for the parameters of a line: one list for every word, split at
\* the commas, and one for the trailing parameter; a ':' inside a word is an
\* error.
parse(line) ==
  IF line.glued THEN NoneV
  ELSE Some(line.words \o (IF is_some(line.trailing) THEN <<line.trailing>> ELSE << >>))

RECURSIVE SetToSeq(_)
SetToSeq(S) == IF S = {} THEN << >> ELSE LET x == CHOOSE x \in S : TRUE
                                          IN <<x>> \o SetToSeq(S \ {x})
SeqToSet(q) == {q[i] : i \in 1..Len(q)}

\* usize::to_string and bool::to_string, and str::parse for them.
UsizeToString(n) == CASE n = 0 -> "0" [] n = 1 -> "1" [] n = 2 -> "2" [] n = 3 -> "3"
BoolToString(b) == IF b THEN "true" ELSE "false"
ParseBool(str) == CASE str = "true" -> Some(TRUE) [] str = "false" -> Some(FALSE) [] OTHER -> NoneV

\* Channel::channel_to_message: the parameters of the CHANNEL_INFO message.
channel_to_message(name, ch) ==
  << <<name,
       IF is_some(ch.topic) THEN ch.topic[1] ELSE "None",
       IF is_some(ch.key) THEN ch.key[1] ELSE "None",
       IF is_some(ch.limit) THEN UsizeToString(ch.limit[1]) ELSE "0",
       IF is_some(ch.enter_mode) THEN ch.enter_mode[1] ELSE "None",
       BoolToString(ch.operator_settable_topic),
       BoolToString(ch.secret)>>,
     SetToSeq(ch.users),
     SetToSeq(ch.operators),
     IF ch.invites = {} THEN <<"None">> ELSE SetToSeq(ch.invites),
     IF ch.banned = {} THEN <<"None">> ELSE SetToSeq(ch.banned) >>

\* Channel::channel_from_message, in the order of the code: "panic" when one
\* of the five lists or of the first five settings is missing or the limit
\* is not a number, then "error" when a member is not a known user, then
\* "panic" when a flag is missing or is not a boolean, the channel otherwise.
channel_from_message(params, us) ==
  IF Len(params) < 5 \/ Len(params[1]) < 5 THEN [result |-> "panic"]
  ELSE IF ~is_some(ParseUsize(params[1][4])) THEN [result |-> "panic"]
  ELSE IF ~(SeqToSet(params[2]) \subseteq DOMAIN us) THEN [result |-> "error"]
  ELSE IF Len(params[1]) < 7 THEN [result |-> "panic"]
  ELSE IF ~is_some(ParseBool(params[1][6])) \/ ~is_some(ParseBool(params[1][7]))
    THEN [result |-> "panic"]
  ELSE [result |-> "ok",
        ch |-> [users |-> SeqToSet(params[2]),
                operators |-> SeqToSet(params[3]),
                topic |-> IF params[1][2] = "None" THEN NoneV ELSE Some(params[1][2]),
                key |-> IF params[1][3] = "None" THEN NoneV ELSE Some(params[1][3]),
                invites |-> IF "None" \in SeqToSet(params[4]) THEN {} ELSE SeqToSet(params[4]),
                limit |-> IF ParseUsize(params[1][4]) = Some(0) THEN NoneV
                          ELSE ParseUsize(params[1][4]),
                enter_mode |-> IF params[1][5] = "None" THEN NoneV ELSE Some(params[1][5]),
                operator_settable_topic |-> ParseBool(params[1][6])[1],
                secret |-> ParseBool(params[1][7])[1],
                banned |-> IF "None" \in SeqToSet(params[5]) THEN {} ELSE SeqToSet(params[5])]]

\* handle_channel_info on server t for the parameters read: a channel
\* already held is kept, a new one is built from the message.  The result is
\* the channels map and whether the handler thread goes on.
handle_channel_info(t, params) ==
  IF params = << >> \/ params[1] = << >> THEN [ch |-> chans[t], alive |-> FALSE]
  ELSE IF params[1][1] \in DOMAIN chans[t] THEN [ch |-> chans[t], alive |-> TRUE]
  ELSE LET r == channel_from_message(params, users[t]) IN
       IF r.result = "panic" THEN [ch |-> chans[t], alive |-> FALSE]
       ELSE IF r.result = "error" THEN [ch |-> chans[t], alive |-> TRUE]
       ELSE [ch |-> insert(chans[t], params[1][1], r.ch), alive |-> TRUE]

\* The handler thread of t for its peer s reads a USERS_INFO or a
\* CHANNEL_INFO line (handle_users_info, handle_channel_info).  A line that
\* does not parse ends the handler with a CRITICAL error, a panic ends its
\* thread.
PeerInventory(s, t) ==
  /\ <<s, t>> \in Links
  /\ exited[t] = NoneV
  /\ <<t, s>> \in peer_up
  /\ link[<<s, t>>] # << >>
  /\ Head(link[<<s, t>>]).command \in {"USERS_INFO", "CHANNEL_INFO"}
  /\ LET m == Head(link[<<s, t>>])
         read == parse(as_string(m.args))
     IN IF m.command = "USERS_INFO"
          THEN /\ users' = [users EXCEPT ![t] = IF m.prefix \in DOMAIN @ THEN @
                                                 ELSE insert(@, m.prefix, user_from_message(m))]
               /\ UNCHANGED <<chans, peer_up>>
          ELSE IF ~is_some(read)
                 THEN /\ peer_up' = peer_up \ {<<t, s>>}
                      /\ UNCHANGED <<chans, users>>
                 ELSE LET r == handle_channel_info(t, read[1]) IN
                      /\ chans' = [chans EXCEPT ![t] = r.ch]
                      /\ peer_up' = IF r.alive THEN peer_up ELSE peer_up \ {<<t, s>>}
                      /\ UNCHANGED users
  /\ link' = [link EXCEPT ![<<s, t>>] = Tail(@)]
  /\ UNCHANGED <<users_clients, inq, rcv, exited, last, cmds, adm>>

\* MainServer::send_users and send_channels: one USERS_INFO message for
\* every user and one CHANNEL_INFO message for every channel of the main
\* server, the users first.
send_users(us) ==
  LET nicks == SetToSeq(DOMAIN us)
  IN [i \in 1..Len(nicks) |->
        Message(nicks[i], "USERS_INFO", nicks[i], "",
                <<us[nicks[i]].server_name, us[nicks[i]].password>>)]
send_channels(ch) ==
  LET names == SetToSeq(DOMAIN ch)
  IN [i \in 1..Len(names) |->
        Message(names[i], "CHANNEL_INFO", names[i], "", channel_to_message(names[i], ch[names[i]]))]

\* A process connects to the main server and sends SERVER with a name
\* (handle_new_connection, connect_server up to the wait for the answer, and
\* the listener's handle_server, which passes the message to the coordinator).
ConnServer(c, name) ==
  /\ cmds > 0
  /\ conn[c].st = "new"
  /\ conn[c].server = MainName
  /\ exited[MainName] = NoneV
  /\ Len(inq[MainName]) < MaxInq
  /\ conn' = [conn EXCEPT ![c] = [@ EXCEPT !.st = "wait", !.action = "SERVER", !.nick = name]]
  /\ inq' = [inq EXCEPT ![MainName] = Append(@, Message(NoPrefix, "SERVER", name, "", <<name>>))]
  /\ cmds' = cmds - 1
  /\ UNCHANGED <<chans, users, users_clients, peer_up, link, rcv, exited, last,
                 operator, squit, sess, peer_wait, wire, locks>>

\* The coordinator of the main server takes a SERVER message
\* (Server::handle_server, MainServer::handle_server).  A name already among
\* the servers gets the answer without parameters; a new name is saved, the
\* other servers are notified, and the inventory is queued for the new peer
\* behind the notice that its handler takes as the answer.
CoordinatorServer(s) ==
  /\ s = MainName
  /\ exited[s] = NoneV
  /\ squit[s] = NoneV
  /\ inq[s] # << >>
  /\ Head(inq[s]).command = "SERVER"
  /\ LET name == Head(inq[s]).args[1]
         staged == {c \in Conns : conn[c].st = "wait" /\ conn[c].nick = name}
     IN IF staged = {}
          THEN UNCHANGED <<conn, peer_up, link>>
          ELSE LET c == CHOOSE c \in staged : TRUE IN
               IF <<s, name>> \in peer_up
                 THEN /\ conn' = [conn EXCEPT ![c] = [@ EXCEPT !.st = "rejected"]]
                      /\ UNCHANGED <<peer_up, link>>
                 ELSE /\ conn' = [conn EXCEPT ![c] = [@ EXCEPT !.st = "accepted"]]
                      /\ peer_up' = peer_up \cup {<<s, name>>, <<name, s>>}
                      /\ link' = [l \in Links |->
                           IF l = <<s, name>> THEN send_users(users[s]) \o send_channels(chans[s])
                           ELSE IF l[1] = s /\ l \in peer_up
                             THEN Append(link[l], Message(s, "SERVER", name, "", <<name>>))
                           ELSE link[l]]
  /\ inq' = [inq EXCEPT ![s] = Tail(@)]
  /\ UNCHANGED <<chans, users, users_clients, rcv, exited, last, cmds,
                 operator, squit, sess, peer_wait, wire, locks>>

\* connect_server after the answer: an answer without parameters makes the
\* handler write ERR_ALREADYREGISTRED; in both cases connect_server returns
\* Ok and handle_client goes on with a ClientHandler that has no user.
ConnAnswer(c) ==
  /\ conn[c].st \in {"rejected", "accepted"}
  /\ conn' = [conn EXCEPT ![c] = [@ EXCEPT !.st = "peer",
                !.reply = IF conn[c].st = "rejected" THEN "ERR_ALREADYREGISTRED" ELSE ""]]
  /\ UNCHANGED <<chans, users, users_clients, peer_up, inq, link, rcv, exited, last, cmds,
                 operator, squit, sess, peer_wait, wire, locks>>

\* A later line of a connection whose SERVER was refused: the ClientHandler
\* has no user, so the line is handled as a server's message.  The line here
\* is a USERS_INFO for nickname "x" (handle_users_info).
ConnLine(c) ==
  /\ cmds > 0
  /\ conn[c].st = "peer"
  /\ conn[c].reply = "ERR_ALREADYREGISTRED"
  /\ LET s == conn[c].server
         m == Message("x", "USERS_INFO", "x", "", <<conn[c].nick, "p1">>)
     IN users' = [users EXCEPT ![s] = IF m.prefix \in DOMAIN @ THEN @
                                       ELSE insert(@, m.prefix, user_from_message(m))]
  /\ conn' = [conn EXCEPT ![c] = [@ EXCEPT !.handled = @ + 1]]
  /\ cmds' = cmds - 1
  /\ UNCHANGED <<chans, users_clients, peer_up, inq, link, rcv, exited, last,
                 operator, squit, sess, peer_wait, wire, locks>>

\* The channel "#c" as the main server can hold it when a new peer arrives:
\* created by a, joined by b, then a topic and modes set by a.
InvTopics == {"", "t1", "hello world", "None"}
InvLimits == {"", "2", "0"}
WithTopic(ch, t) == IF t = "" THEN ch ELSE set_topic(ch, "a", t).ch
WithMode(ch, on, mode, args) == IF on THEN apply_mode(ch, mode, args, "a").ch ELSE ch
InvChannels ==
  {WithTopic(WithMode(WithMode(WithMode(WithMode(
       [ChannelNew("a") EXCEPT !.users = {"a", "b"}],
       k, "+k", <<"k1">>), l # "", "+l", <<l>>), o, "+o", <<"b">>), sec, "+s", << >>), t) :
     k \in BOOLEAN, l \in InvLimits, o \in BOOLEAN, sec \in BOOLEAN, t \in InvTopics}

\* The main server and sec1 are running with users a, b, c and the channel;
\* sec2 is not connected yet.  Connection 1 is sec2's, connection 2 is a
\* process that calls itself "sec1".
ServName == [c \in Conns |-> IF c = 1 THEN "sec2" ELSE "sec1"]
InitServ ==
  /\ \E ch \in InvChannels :
       chans = [s \in Servers |-> IF s = "sec2" THEN << >> ELSE ("#c" :> ch)]
  /\ users = [s \in Servers |-> IF s = "sec2" THEN << >>
                ELSE [n \in {"a", "b", "c"} |->
                        [NewUser(n) EXCEPT !.channels = IF n = "c" THEN {} ELSE {"#c"}]]]
  /\ users_clients = [s \in Servers |-> {n \in {"a", "b", "c"} : Home[n] = s}]
  /\ peer_up = {<<MainName, "sec1">>, <<"sec1", MainName>>}
  /\ inq = [s \in Servers |-> << >>]
  /\ link = [l \in Links |-> << >>]
  /\ rcv = [n \in Nicks |-> << >>]
  /\ exited = [s \in Servers |-> NoneV]
  /\ last = NoCmd
  /\ cmds = MaxServ
  /\ operator = [s \in Servers |-> ""]
  /\ squit = [s \in Servers |-> NoneV]
  /\ sess = [n \in Nicks |-> NewSession]
  /\ peer_wait = {}
  /\ wire = NoWire
  /\ locks = NoLocks
  /\ conn = [c \in Conns |-> [NoConn EXCEPT !.st = "new", !.server = MainName]]

NextServ ==
  \/ \E c \in Conns : ConnServer(c, ServName[c])
  \/ CoordinatorServer(MainName)
  \/ \E c \in Conns : ConnAnswer(c)
  \/ \E c \in Conns : ConnLine(c)
  \/ \E l \in Links : PeerInventory(l[1], l[2])
  \/ \E l \in Links : PeerHandler(l[1], l[2])

SpecServ == InitServ /\ [][NextServ]_vars

\* C18: a connection whose SERVER name was already a connected peer, once
\* answered ERR_ALREADYREGISTRED, is closed and has no further message of
\* its handled, and the peer that holds the name stays connected.
C18_RejectedIsClosed ==
  \A c \in Conns :
    conn[c].reply = "ERR_ALREADYREGISTRED"
      => /\ conn[c].st = "closed"
         /\ conn[c].handled = 0
         /\ <<MainName, conn[c].nick>> \in peer_up

\* C19: once the new peer has nothing left to read of the inventory, or its
\* handler has ended, it holds every user of the main server and every
\* channel of the main server with the same members, operators, topic, key,
\* limit and modes.
InventoryDone(t) ==
  /\ \E c \in Conns : conn[c].st = "peer" /\ conn[c].nick = t /\ conn[c].reply = ""
  /\ link[<<MainName, t>>] = << >> \/ <<t, MainName>> \notin peer_up
C19_PeerHoldsInventory ==
  InventoryDone("sec2")
    => /\ {"a", "b", "c"} \subseteq DOMAIN users["sec2"]
       /\ \A name \in DOMAIN chans[MainName] :
            /\ name \in DOMAIN chans["sec2"]
            /\ chans["sec2"][name] = chans[MainName][name]

\* ------------------------------------------------- PRIVMSG to a list of users
\* The PRIVMSG of a client to a list of nicknames: target is the first
\* element of the receivers list, args are the text followed by the whole
\* receivers list.
UserMessage(n, receivers, text) == Message(n, "PRIVMSG", receivers[1], "", <<text>> \o receivers)
Receivers(m) == {m.args[i] : i \in 2..Len(m.args)}

\* private_message for receivers that are nicknames: for every receiver in
\* turn, a known user who is not away makes the handler pass the message
\* (send_message_to_user, notify_server_to_send_message: a clone of the whole
\* message) to the coordinator; an away user or an unknown nickname is
\* answered with a numeric reply.
PassedOn(s, receivers) ==
  SelectSeq(receivers, LAMBDA r : r \in DOMAIN users[s] /\ ~is_some(users[s][r].away_message))
ClientPrivmsgUsers(n, receivers, text) ==
  LET s == Home[n]
      m == UserMessage(n, receivers, text)
      passed == PassedOn(s, receivers)
      reply == IF \E i \in 1..Len(receivers) : receivers[i] \notin DOMAIN users[s]
                 THEN "ERR_NOSUCHNICK"
               ELSE IF Len(passed) < Len(receivers) THEN "RPL_AWAY"
               ELSE "OK"
  IN /\ CanCommand(n)
     /\ receivers # << >>
     /\ Len(inq[s]) + Len(passed) <= MaxInq
     /\ inq' = [inq EXCEPT ![s] = AppendN(@, m, Len(passed))]
     /\ last' = Record("PRIVMSG", n, receivers[1], "", m.args, reply, NoneV, 0, NoneV)
     /\ cmds' = cmds - 1
     /\ UNCHANGED <<chans, users, users_clients, peer_up, link, rcv, exited, adm>>

\* One or two receivers, none of them the sender; every message has a text
\* of its own.
ReceiverLists(n) ==
  {<<x>> : x \in Nicks \ {n}}
    \cup ({<<x, y>> : x \in Nicks \ {n}, y \in Nicks \ {n}} \ {<<x, x>> : x \in Nicks})
InitPriv ==
  /\ chans = [s \in Servers |-> << >>]
  /\ users = [s \in Servers |-> [n \in Nicks |-> NewUser(n)]]
  /\ users_clients = [s \in Servers |-> {n \in Nicks : Home[n] = s}]
  /\ peer_up = Links
  /\ inq = [s \in Servers |-> << >>]
  /\ link = [l \in Links |-> << >>]
  /\ rcv = [n \in Nicks |-> << >>]
  /\ exited = [s \in Servers |-> NoneV]
  /\ last = NoCmd
  /\ cmds = MaxPriv
  /\ AdmInit
ClientPriv == \E n \in Nicks : \E receivers \in ReceiverLists(n) :
                ClientPrivmsgUsers(n, receivers, ToString(cmds))
NextPriv == ClientPriv \/ System
SpecPriv == InitPriv /\ [][NextPriv]_vars

\* C20: a PRIVMSG to a list of existing users who are not away reaches
\* every listed receiver exactly once and nobody else: nobody ever holds two
\* copies or a copy of a message not addressed to them, and once no message
\* is in flight every receiver of the last PRIVMSG holds its copy.
Quiet ==
  /\ \A s \in Servers : inq[s] = << >>
  /\ \A l \in Links : link[l] = << >>
C20_OncePerReceiver ==
  /\ \A n \in Nicks : \A i \in 1..Len(rcv[n]) :
       rcv[n][i].command = "PRIVMSG" /\ ~names_channel(rcv[n][i].target)
         => /\ n \in Receivers(rcv[n][i])
            /\ Copies_of(n, rcv[n][i]) = 1
  /\ (Quiet /\ last.command = "PRIVMSG" /\ last.reply = "OK" /\ ~names_channel(last.target))
       => \A r \in Receivers([args |-> last.args]) :
            Copies_of(r, Message(last.nick, "PRIVMSG", last.target, "", last.args)) = 1

\* ---------------------------------------------------------------- QUIT
\* quit in the handler of n: the stream is shut down, which ends the handler
\* thread, and the message goes to the coordinator with the nickname as
\* prefix.  An empty text stands for a QUIT without parameter.
ClientQuit(n, text) ==
  /\ CanCommand(n)
  /\ inq' = [inq EXCEPT ![Home[n]] =
               Append(@, Message(n, "QUIT", "", "", IF text = "" THEN << >> ELSE <<text>>))]
  /\ sess' = [sess EXCEPT ![n].st = "done"]
  /\ cmds' = cmds - 1
  /\ UNCHANGED <<chans, users, users_clients, peer_up, link, rcv, exited, last,
                 operator, squit, peer_wait, conn, wire, locks>>

\* The client of n closes its socket, or sends a line the parser rejects:
\* read_line returns no data, or handle_data returns a CRITICAL error, and
\* read_and_handle_messages returns, which ends the handler thread.
ClientDrop(n) ==
  /\ CanCommand(n)
  /\ sess' = [sess EXCEPT ![n].st = "done"]
  /\ cmds' = cmds - 1
  /\ UNCHANGED <<chans, users, users_clients, peer_up, inq, link, rcv, exited, last,
                 operator, squit, peer_wait, conn, wire, locks>>

\* Server::handle_quit.  With a text the message goes to the members of the
\* channels in the user's record while the users lock is held:
\* send_message_to_channel fails CRITICAL for a channel that is not in the
\* map and for a local member whose handler has ended, and send_priv_msg
\* locks users again for a member without a session here; a second lock of
\* a held Mutex blocks for ever or panics.  Members are visited in the order
\* of the hash map, so any local members may have got the message before the
\* failure.  Only a call that returns removes the session of the user.
\* The result: got (who receives the message), err, and whether the session
\* is removed.
handle_quit(s, m) ==
  LET nickname == m.prefix
      mine == IF m.args = << >> THEN {} ELSE users[s][nickname].channels
      missing == {name \in mine : name \notin DOMAIN chans[s]}
      members == UNION {chans[s][name].users : name \in mine \ missing}
      local == {x \in members \cap users_clients[s] : x # nickname}
      ended == {x \in local : sess[x].st = "done"}
      relock == members \ users_clients[s]
      errs == (IF missing # {} THEN {<<"CRITICAL", "Couldn't get channel">>} ELSE {})
                \cup (IF ended # {} THEN {<<"CRITICAL", "Couldn't send">>} ELSE {})
                \cup (IF relock # {} THEN {<<"DEADLOCK", "lock held">>, <<"PANIC", "lock held">>}
                                     ELSE {})
  IN IF m.args # << >> /\ nickname \notin DOMAIN users[s]
       THEN {[got |-> {}, err |-> Some(<<"PANIC", "unwrap on None">>), removed |-> FALSE]}
     ELSE IF errs = {} THEN {[got |-> local, err |-> NoneV, removed |-> TRUE]}
     ELSE {[got |-> X, err |-> Some(e), removed |-> FALSE] :
             X \in SUBSET (local \ ended), e \in errs}

\* The sessions whose entry handle_quit has taken out of the session map
\* and whose handler thread it has still to join.
JoinPending(s) == {n \in Nicks : Home[n] = s /\ n \notin users_clients[s] /\ sess[n].st = "done"}

\* The coordinator takes a QUIT message.  It stops for good on a CRITICAL
\* error, on a panic and when it waits for a lock it holds.  Its last
\* statement takes the entry of the user out of the session map with
\* remove_entry and then joins the handler thread of the entry.
CoordinatorQuit(s) ==
  /\ exited[s] = NoneV
  /\ squit[s] = NoneV
  /\ JoinPending(s) = {}
  /\ inq[s] # << >>
  /\ Head(inq[s]).command = "QUIT"
  /\ LET m == Head(inq[s]) IN
     \E r \in handle_quit(s, m) :
       /\ \A n \in r.got : Len(rcv[n]) < MaxRcv
       /\ rcv' = [n \in Nicks |-> IF n \in r.got THEN send_message_to_receiver(rcv[n], m)
                                                  ELSE rcv[n]]
       /\ users_clients' = [users_clients EXCEPT ![s] = IF r.removed THEN @ \ {m.prefix} ELSE @]
       /\ exited' = [exited EXCEPT ![s] = IF is_some(r.err) THEN Some(r.err[1][2]) ELSE @]
  /\ inq' = [inq EXCEPT ![s] = Tail(@)]
  /\ UNCHANGED <<chans, users, peer_up, link, last, cmds, adm>>

\* The join of handle_quit returns: the handler thread of the entry taken
\* out of the map has ended.
CoordinatorQuitJoin(s) ==
  /\ exited[s] = NoneV
  /\ \E n \in JoinPending(s) : sess' = [sess EXCEPT ![n].st = "joined"]
  /\ UNCHANGED <<chans, users, users_clients, peer_up, inq, link, rcv, exited, last, cmds,
                 operator, squit, peer_wait, conn, wire, locks>>

\* Channel #c with some of a (main), b and c (sec1) as members; the users
\* quit, with or without a text.
QuitMembers == {{"a"}, {"b"}, {"a", "b"}, {"b", "c"}, {"a", "b", "c"}}
InitQuit == \E J \in QuitMembers : Joined(J, IF "a" \in J THEN "a" ELSE "b", MaxQuit)
NextQuit ==
  \/ \E n \in Nicks, text \in {"", "bye"} : ClientQuit(n, text)
  \/ \E n \in Nicks : ClientDrop(n)
  \/ \E s \in Servers : CoordinatorQuit(s)
  \/ \E s \in Servers : CoordinatorQuitJoin(s)
SpecQuit == InitQuit /\ [][NextQuit]_vars

\* C21: when the coordinator has handled the QUIT of a user, no channel of
\* its channel map has that user as its only member.
QuitHandled(s, n) ==
  /\ inq[s] # << >>
  /\ Head(inq[s]).command = "QUIT"
  /\ Head(inq[s]).prefix = n
  /\ inq'[s] = Tail(inq[s])
C21_QuitDestroysChannel ==
  [][\A s \in Servers : \A n \in Nicks :
       QuitHandled(s, n) => \A name \in DOMAIN chans'[s] : chans'[s][name].users # {n}]_vars

\* ------------------------------------------------- entry rules of a channel
\* The last command was a JOIN of a non-member to an existing channel that
\* none of the earlier tests (ban, channel count, limit) refuses.
JoinPastEarlierChecks ==
  /\ JoinServed
  /\ last.nick \notin last.pre[1].users
  /\ last.nick \notin last.pre[1].banned
  /\ last.nch # 10
  /\ ~(is_some(last.pre[1].limit) /\ Cardinality(last.pre[1].users) >= last.pre[1].limit[1])
Joined_by_last ==
  /\ last.reply \in {"RPL_TOPIC", "RPL_NOTOPIC"}
  /\ last.post = Some([last.pre[1] EXCEPT !.users = @ \cup {last.nick}])
Refused_with(reply) == last.reply = reply /\ last.post = last.pre

\* C22: while the channel is invite-only, such a JOIN succeeds exactly when
\* the nickname is on the invite list, and is answered ERR_INVITEONLYCHAN
\* with the channel unchanged otherwise; and a nickname gets on the invite
\* list only by the INVITE of an operator of the channel.
InvitedBy(s, name, x) ==
  /\ last'.command = "INVITE"
  /\ last'.target = name
  /\ last'.args = <<x>>
  /\ Home[last'.nick] = s
  /\ is_some(last'.pre)
  /\ is_operator(last'.pre[1], last'.nick)
C22_InviteOnlyJoin ==
  [][/\ \A s \in Servers : \A name \in DOMAIN chans'[s] :
          \A x \in chans'[s][name].invites :
            (name \in DOMAIN chans[s] => x \notin chans[s][name].invites)
              => InvitedBy(s, name, x)
     /\ (JoinPastEarlierChecks /\ last.pre[1].enter_mode = Some("+i"))'
          => IF last'.nick \in last'.pre[1].invites
               THEN Joined_by_last' ELSE Refused_with("ERR_INVITEONLYCHAN")']_vars
C22_Witness ==
  /\ JoinPastEarlierChecks
  /\ last.pre[1].enter_mode = Some("+i")
  /\ last.nick \in last.pre[1].invites
  /\ Joined_by_last

ByNonOperator ==
  /\ is_some(last.pre)
  /\ \/ last.command \in {"MODE", "KICK", "INVITE"}
     \/ last.command = "TOPIC" /\ last.pre[1].operator_settable_topic
  /\ last.nick \notin last.pre[1].operators
TurnedDown ==
  /\ last.post = last.pre
  /\ last.reply = IF last.nick \in last.pre[1].users THEN "ERR_CHANOPRIVSNEEDED"
                                                     ELSE "ERR_NOTONCHANNEL"
\* The modes that take an argument come with one.
HasItsArgument == (last.command = "MODE" /\ last.mode \in {"+k", "+l", "+o", "-o", "+b"})
                    => last.args # << >>

MemberOf(s, n) == {name \in DOMAIN chans[s] : n \in chans[s][name].users}
C25_AtMostTenChannels ==
  /\ \A s \in Servers : \A n \in Nicks : Cardinality(MemberOf(s, n)) <= MAX_USER_CHANNELS
  /\ (last.command = "JOIN" /\ last.nch = MAX_USER_CHANNELS
        /\ (is_some(last.pre) => last.nick \notin last.pre[1].users \cup last.pre[1].banned))
       => last.reply = "ERR_TOOMANYCHANNELS"

PlusByOperator ==
  /\ last.command = "MODE"
  /\ last.mode \in {"+k", "+l", "+i", "+o", "+t", "+s", "+b"}
  /\ is_some(last.pre)
  /\ last.nick \in last.pre[1].users
  /\ last.nick \in last.pre[1].operators
C27_PlusTwiceIsOnce ==
  PlusByOperator
    => set_channel_mode(last.post, last.nick, last.mode, last.args).ch = last.post
C27_Witness ==
  /\ PlusByOperator
  /\ last.mode = "+k"
  /\ last.reply = "RPL_MODESET"
  /\ last.post # last.pre
  /\ set_channel_mode(last.post, last.nick, last.mode, last.args).reply = "ERR_KEYSET"

\* ------------------------------------------- lines, character by character
\* parser.rs and Message::as_string work on the bytes of a line.  Here a text
\* is the sequence of its characters, each a one-character string; an index
\* counts from 1 where the code counts from 0, and an index of 0 stands for
\* None or Err.
first_index(slice, S) ==
  IF \E i \in 1..Len(slice) : slice[i] \in S
  THEN CHOOSE i \in 1..Len(slice) : slice[i] \in S /\ \A j \in 1..(i - 1) : slice[j] \notin S
  ELSE 0

from(slice, i) == SubSeq(slice, i, Len(slice))

upto(slice, i) == SubSeq(slice, 1, i - 1)

next_whitespace(slice) == first_index(slice, {" "})

\* A slice of spaces only is returned as it is.
erase_front_whitespaces(slice) ==
  IF \E i \in 1..Len(slice) : slice[i] # " "
  THEN from(slice, CHOOSE i \in 1..Len(slice) : slice[i] # " " /\ \A j \in 1..(i - 1) : slice[j] = " ")
  ELSE slice

\* The index of the first CR when LF follows it directly and no LF comes
\* before it; whatever follows that LF is not looked at.
get_index_of_end_of_message(slice) ==
  LET index == first_index(slice, {"\r", "\n"})
  IN  IF index = 0 THEN 0
      ELSE IF slice[index] = "\n" THEN 0
      ELSE IF index + 1 > Len(slice) \/ slice[index + 1] # "\n" THEN 0
      ELSE index

param_is_valid(slice) == \A i \in 1..Len(slice) : slice[i] \notin {"\n", "\r", ":"}

\* str::split: the pieces between the separators, empty pieces included.
RECURSIVE split(_, _)
split(slice, sep) ==
  LET i == first_index(slice, {sep})
  IN  IF i = 0 THEN <<slice>>
      ELSE <<upto(slice, i)>> \o split(from(slice, i + 1), sep)

\* The parameter list with the last group added, or NoneV for Err.
process_last_param(slice, params, sep) ==
  LET index == get_index_of_end_of_message(slice)
  IN  IF index = 0 THEN NoneV
      ELSE IF ~param_is_valid(upto(slice, index)) THEN NoneV
      ELSE Some(Append(params, split(upto(slice, index), sep)))

\* The loop of parse over the parameters.
RECURSIVE parse_params(_, _)
parse_params(remaining_message, params) ==
  IF remaining_message # << >> /\ remaining_message[1] = ":"
  THEN process_last_param(Tail(remaining_message), params, "\n")
  ELSE LET next_space_index == next_whitespace(remaining_message)
       IN  IF next_space_index = 0
           THEN process_last_param(remaining_message, params, ",")
           ELSE IF ~param_is_valid(upto(remaining_message, next_space_index))
           THEN NoneV
           ELSE parse_params(from(remaining_message, next_space_index + 1),
                             Append(params, split(upto(remaining_message, next_space_index), ",")))

\* parse of parser.rs: Some(message) for Ok, NoneV for Err.
parser_parse(message) ==
  LET has_prefix == message # << >> /\ message[1] = ":"
      prefix_end == next_whitespace(message)
      prefix == IF has_prefix THEN Some(SubSeq(message, 2, prefix_end - 1)) ELSE NoneV
      remaining_message ==
        erase_front_whitespaces(IF has_prefix THEN from(message, prefix_end) ELSE message)
      next_space_index == next_whitespace(remaining_message)
      index == get_index_of_end_of_message(remaining_message)
      params == parse_params(erase_front_whitespaces(from(remaining_message, next_space_index)), << >>)
  IN  IF has_prefix /\ prefix_end = 0 THEN NoneV
      ELSE IF next_space_index = 0
      THEN IF index = 0 THEN NoneV
           ELSE Some([prefix |-> prefix, command |-> upto(remaining_message, index), params |-> << >>])
      ELSE IF params = NoneV THEN NoneV
      ELSE Some([prefix |-> prefix, command |-> upto(remaining_message, next_space_index),
                 params |-> params[1]])

RECURSIVE params_total_count(_)
params_total_count(params) ==
  IF params = << >> THEN 0 ELSE Len(Head(params)) + params_total_count(Tail(params))

\* The text as_string writes for the parameters from element param_number of
\* the first list on, current_param_counter elements being written already.
RECURSIVE params_as_string(_, _, _, _)
params_as_string(params, param_number, current_param_counter, total_params_count) ==
  IF params = << >> THEN << >>
  ELSE IF param_number > Len(Head(params))
  THEN params_as_string(Tail(params), 1, current_param_counter, total_params_count)
  ELSE LET param == Head(params)[param_number]
           mark == IF current_param_counter + 1 = total_params_count
                      /\ \E i \in 1..Len(param) : param[i] = " "
                   THEN <<":">>
                   ELSE IF param_number # 1 THEN <<",">> ELSE << >>
       IN  (IF param_number = 1 THEN <<" ">> ELSE << >>) \o mark \o param
           \o params_as_string(params, param_number + 1, current_param_counter + 1,
                               total_params_count)

\* Message::as_string of message.rs.
Message_as_string(m) ==
  (IF is_some(m.prefix) THEN <<":">> \o m.prefix[1] \o <<" ">> ELSE << >>)
  \o m.command
  \o params_as_string(m.params, 1, 0, params_total_count(m.params))
  \o <<"\r", "\n">>

\* A handler hands a message to the serializer before it writes it.
WireSerialize ==
  /\ wire.st = "message"
  /\ wire' = [wire EXCEPT !.st = "line", !.line = Message_as_string(wire.message[1])]
  /\ UNCHANGED <<chans, users, users_clients, peer_up, inq, link, rcv, exited, last, cmds,
                 operator, squit, sess, peer_wait, conn, locks>>

\* A handler hands a line it has read to the parser.
WireParse ==
  /\ wire.st = "line"
  /\ wire' = [wire EXCEPT !.st = "parsed", !.parsed = parser_parse(wire.line),
                          !.rounds = @ + 1]
  /\ UNCHANGED <<chans, users, users_clients, peer_up, inq, link, rcv, exited, last, cmds,
                 operator, squit, sess, peer_wait, conn, locks>>

\* A server passes a message it has parsed on to a peer or to a client.
WireRelay ==
  /\ wire.st = "parsed"
  /\ is_some(wire.parsed)
  /\ wire.rounds < MaxWire
  /\ wire' = [wire EXCEPT !.st = "message", !.message = wire.parsed, !.parsed = NoneV]
  /\ UNCHANGED <<chans, users, users_clients, peer_up, inq, link, rcv, exited, last, cmds,
                 operator, squit, sess, peer_wait, conn, locks>>

Texts(S, n) == UNION {[1..k -> S] : k \in 0..n}

Tokens == {<<"a">>, <<"b">>}

TokenGroups == {<<t>> : t \in Tokens} \cup {<<t, u>> : t, u \in Tokens}

\* The final group: a group of tokens or one trailing element.
FinalGroups == TokenGroups \cup {<<t>> : t \in Texts({"a", " ", ",", ":"}, MaxTrailing)}

WireMessages ==
  {[prefix |-> p, command |-> <<"C">>, params |-> ps] :
     p \in {NoneV, Some(<<"p">>)},
     ps \in {<< >>} \cup {<<f>> : f \in FinalGroups}
             \cup {<<g, f>> : g \in TokenGroups, f \in FinalGroups}}

\* read_line returns the text up to the first LF, that LF included.
WireLines ==
  {l \in Texts({"a", " ", ",", ":", "\r", "\n"}, MaxLine) :
     \A i \in 1..(Len(l) - 1) : l[i] # "\n"}

InitWire ==
  /\ chans = [s \in Servers |-> << >>]
  /\ users = [s \in Servers |-> [n \in Nicks |-> NewUser(n)]]
  /\ users_clients = [s \in Servers |-> {n \in Nicks : Home[n] = s}]
  /\ peer_up = Links
  /\ inq = [s \in Servers |-> << >>]
  /\ link = [l \in Links |-> << >>]
  /\ rcv = [n \in Nicks |-> << >>]
  /\ exited = [s \in Servers |-> NoneV]
  /\ last = NoCmd
  /\ cmds = 0
  /\ operator = [s \in Servers |-> ""]
  /\ squit = [s \in Servers |-> NoneV]
  /\ sess = [n \in Nicks |-> NewSession]
  /\ peer_wait = {}
  /\ conn = [c \in Conns |-> NoConn]
  /\ locks = NoLocks
  /\ \/ \E m \in WireMessages : wire = [NoWire EXCEPT !.st = "message", !.message = Some(m)]
     \/ \E l \in WireLines : wire = [NoWire EXCEPT !.st = "line", !.line = l]

NextWire == WireSerialize \/ WireParse \/ WireRelay

SpecWire == InitWire /\ [][NextWire]_vars

\* C28: a message that was serialized and whose line was parsed comes back
\* equal: the parser returns a message, with the same prefix, command and
\* parameter groups.
C28_RoundTrip ==
  (wire.st = "parsed" /\ is_some(wire.message)) => wire.parsed = wire.message

\* The line has no CRLF, or a CR without the LF after it, or an LF without
\* the CR before it, or an LF followed by CR.
BrokenEnd(l) ==
  \/ ~\E i \in 1..(Len(l) - 1) : l[i] = "\r" /\ l[i + 1] = "\n"
  \/ \E i \in 1..Len(l) : l[i] = "\r" /\ (i = Len(l) \/ l[i + 1] # "\n")
  \/ \E i \in 1..Len(l) : l[i] = "\n" /\ (i = 1 \/ l[i - 1] # "\r")
  \/ \E i \in 1..(Len(l) - 1) : l[i] = "\n" /\ l[i + 1] = "\r"

\* After the prefix, if there is one, and the spaces that follow it, the line
\* is at its end: there is no command token.
NoCommandToken(l) ==
  LET body == IF l # << >> /\ l[1] = ":"
              THEN IF first_index(l, {" "}) = 0 THEN << >> ELSE from(l, first_index(l, {" "}))
              ELSE l
      start == first_index(body, {"a", ",", ":", "\r", "\n"})
  IN  start = 0 \/ body[start] \in {"\r", "\n"}

\* Behind the command token a colon stands inside a parameter, not at its
\* start, and no parameter before it starts with a colon.
ColonInsideParameter(l) ==
  LET b == IF l # << >> /\ l[1] = ":" THEN first_index(l, {" "}) ELSE 1
      c == IF b = 0 THEN 0 ELSE first_index(from(l, b), {"a", ",", ":", "\r", "\n"})
      e == IF c = 0 THEN 0 ELSE first_index(from(l, b + c - 1), {" "})
      p == b + c + e - 2
  IN  /\ e # 0
      /\ \E i \in (p + 1)..Len(l) :
           /\ l[i] = ":" /\ l[i - 1] # " "
           /\ \A j \in (p + 1)..(i - 1) : ~(l[j] = ":" /\ l[j - 1] = " ")

\* C29: the parser returns no message for a line without CRLF or with a bare
\* CR or a bare LF, for a line with a colon inside a non-trailing parameter,
\* and for a line without a command token.
C29_ParserRejects ==
  (/\ wire.st = "parsed"
   /\ \/ BrokenEnd(wire.line)
      \/ NoCommandToken(wire.line)
      \/ ColonInsideParameter(wire.line))
  => wire.parsed = NoneV

\* C30: no coordinator ever locks a mutex it already holds: none has stopped
\* on a lock of its own.
C30_NoSelfLock == \A s \in Servers : exited[s] # Some("lock held")

\* C31: the relay of a PRIVMSG comes to rest: a PRIVMSG that a secondary
\* server got from the main server is not sent back to the main server,
\* which would hand it out again.  The link from a secondary to the main
\* server carries only the PRIVMSGs of the users of that secondary.
C31_RelayComesToRest ==
  \A t \in Secondaries : \A i \in 1..Len(link[<<t, MainName>>]) :
    link[<<t, MainName>>][i].command = "PRIVMSG"
      => Home[link[<<t, MainName>>][i].prefix] = t

\* ------------------------------------------- the users and channels mutexes
\* The mutexes an operation locks, in the order it locks them; it keeps the
\* first while it waits for the second and gives both back when it returns.
\* join_channel and invite_to_channel run in a session handler, handle_join
\* and handle_topic in the coordinator.
lock_order(op) ==
  CASE op = "join_channel" -> <<"users", "channels">>
    [] op = "invite_to_channel" -> <<"channels", "users">>
    [] op = "handle_join" -> <<"channels", "users">>
    [] op = "handle_topic" -> <<"users", "channels">>

Operations(th) ==
  IF th = "coordinator" THEN {"handle_join", "handle_topic"}
                        ELSE {"join_channel", "invite_to_channel"}

holder(mutex) == {th \in Threads : mutex \in locks[th].held}

\* The mutex a thread inside an operation is about to lock, if any.
wanted(th) ==
  IF locks[th].op = "" THEN {}
  ELSE {lock_order(locks[th].op)[i] : i \in {Cardinality(locks[th].held) + 1} \cap 1..2}

LockFrame ==
  UNCHANGED <<chans, users, users_clients, peer_up, inq, link, rcv, exited, last,
              operator, squit, sess, peer_wait, conn, wire>>

\* A thread takes up an operation and locks its first mutex.
LockFirst(th, op) ==
  /\ cmds > 0
  /\ locks[th].op = ""
  /\ holder(lock_order(op)[1]) = {}
  /\ locks' = [locks EXCEPT ![th] = [op |-> op, held |-> {lock_order(op)[1]}]]
  /\ cmds' = cmds - 1
  /\ LockFrame

\* A thread that holds its first mutex locks the second.
LockSecond(th) ==
  /\ \E mutex \in wanted(th) :
       /\ locks[th].held # {}
       /\ holder(mutex) = {}
       /\ locks' = [locks EXCEPT ![th].held = @ \cup {mutex}]
  /\ UNCHANGED cmds
  /\ LockFrame

\* The operation returns: the guards are dropped.
Unlock(th) ==
  /\ locks[th].op # ""
  /\ wanted(th) = {}
  /\ locks' = [locks EXCEPT ![th] = [op |-> "", held |-> {}]]
  /\ UNCHANGED cmds
  /\ LockFrame

InitLock ==
  /\ chans = [s \in Servers |-> << >>]
  /\ users = [s \in Servers |-> [n \in Nicks |-> NewUser(n)]]
  /\ users_clients = [s \in Servers |-> {n \in Nicks : Home[n] = s}]
  /\ peer_up = Links
  /\ inq = [s \in Servers |-> << >>]
  /\ link = [l \in Links |-> << >>]
  /\ rcv = [n \in Nicks |-> << >>]
  /\ exited = [s \in Servers |-> NoneV]
  /\ last = NoCmd
  /\ cmds = MaxLockOps
  /\ AdmInit

NextLock ==
  \E th \in Threads :
    \/ \E op \in Operations(th) : LockFirst(th, op)
    \/ LockSecond(th)
    \/ Unlock(th)

SpecLock == InitLock /\ [][NextLock]_vars

\* C32: no two threads wait for each other on the users and channels
\* mutexes: never does one thread hold users and wait for channels while
\* another holds channels and waits for users.
C32_NoLockCycle ==
  ~\E t1, t2 \in Threads :
     /\ "users" \in locks[t1].held /\ "channels" \in wanted(t1)
     /\ "channels" \in locks[t2].held /\ "users" \in wanted(t2)

\* C33: the message the handler of a session takes from its queue while it
\* waits for the answer to its OPER or SQUIT is the coordinator's answer to
\* that request: the request of this session with the server name replaced
\* or left as it was, never a message sent to the session for another reason.
C33_AnswerIsTheAnswer ==
  [][\A n \in Nicks :
       (sess[n].st \in {"oper", "squit"} /\ sess'[n].taken = sess[n].taken + 1)
         => LET answer == rcv[n][sess[n].taken + 1] IN
            /\ answer.prefix = n
            /\ answer.command = (IF sess[n].st = "oper" THEN "OPER" ELSE "SQUIT")]_vars

\* C34: the mutations of a channel are applied in the order their requests
\* arrived on the coordinator's queue.  The JOIN or PART of a user of
\* another server is applied when the coordinator takes it from the queue;
\* so while such a request for a channel waits on the queue of a server, only
\* the coordinator, taking the head of the queue, changes that server's copy
\* of the channel.
C34_AppliedInArrivalOrder ==
  [][\A t \in Servers : \A i \in 1..Len(inq[t]) :
       (/\ inq[t][i].command \in {"JOIN", "PART"}
        /\ Home[inq[t][i].prefix] # t
        /\ get(chans'[t], inq[t][i].target) # get(chans[t], inq[t][i].target))
       => inq'[t] = Tail(inq[t])]_vars

\* C35: once no message is in flight, and every coordinator and every peer
\* handler is still running, all the servers that hold #c list the same
\* members for it.
C35_SameMembersAtRest ==
  (Quiet /\ peer_up = Links /\ \A s \in Servers : exited[s] = NoneV)
    => \A s, t \in Servers :
         ("#c" \in DOMAIN chans[s] /\ "#c" \in DOMAIN chans[t])
           => chans[s]["#c"].users = chans[t]["#c"].users

\* C36: when the handler thread of a session ends without a QUIT (the socket
\* was closed or a line could not be parsed), the session is no longer in
\* the session map of its server.
C36_EndedSessionRemoved ==
  [][\A n \in Nicks :
       (sess[n].st = "run" /\ sess'[n].st = "done" /\ inq' = inq)
         => n \notin users_clients'[Home[n]]]_vars

\* C37: on QUIT the coordinator joins the handler thread of the client
\* before it takes the client's entry out of the session map: a user whose
\* entry is gone from the map of its server has a handler that was joined.
C37_JoinedBeforeRemoved ==
  \A n \in Nicks : n \notin users_clients[Home[n]] => sess[n].st = "joined"

\* C38: a client is answered RPL_YOUREOPER only after the coordinator has
\* checked its password and recorded its nickname as operator: the handler
\* makes that reply only of the message the coordinator sends in the branch
\* of handle_operator that records the operator, for the OPER of this client.
C38_OperatorReplyIsEarned ==
  [][\A n \in Nicks :
       (sess[n].st = "oper" /\ sess'[n].st = "run" /\ sess'[n].reply = "RPL_YOUREOPER")
         => rcv[n][sess'[n].taken] = Message(n, "OPER", NowAnOperator, "", << >>)]_vars

\* C39: on the home server of a user the channels in the user's record are
\* the channels of the channel map that have the user as a member.
C39_RecordIsMembership ==
  \A n \in Nicks :
    users[Home[n]][n].channels
      = {name \in DOMAIN chans[Home[n]] : is_user_on_channel(chans[Home[n]][name], n)}

\* C40: at most one live user session exists per nickname on a server: no
\* connection that logged in runs a session handler under the nickname
\* another connection of the server runs one under, so that the one entry
\* the session map keeps for the nickname (save_user_connection inserts
\* under the nickname) reaches every running handler.
C40_OneSessionPerNickname ==
  \A c1 \in Conns : \A c2 \in Conns :
    (/\ c1 # c2
     /\ conn[c1].st = "session"
     /\ conn[c2].st = "session"
     /\ conn[c2].action = "LOGIN"
     /\ conn[c1].server = conn[c2].server)
      => conn[c1].nick # conn[c2].nick

====
